---- MODULE Spec2Model ----
(***************************************************************************)
(* A model of the BESSER conversational-agent engine: the dialogue state   *)
(* machine (ordered transitions, bodies, fallback policy), the platform    *)
(* handlers that feed it, and the scenario boolean-expression evaluator.   *)
(***************************************************************************)
EXTENDS Integers, Sequences, FiniteSets, TLC

VARIABLES
    transitions,          \* State.transitions: state id -> ordered sequence of transitions
    fallbackBody,         \* State.fallbackBody: state id -> body or NoBody
    globalFallbackBody,   \* StateMachine.globalFallbackBody: body or NoBody
    reassigned,           \* set_global_fallback_body has been called since construction
    session,              \* session id -> Session
    last,                 \* the last engine operation and what it did
    platform,             \* the platform the agent runs on: "none", "websocket" or "telegram"
    running,              \* Platform.running
    connections,          \* WebSocketPlatform._connections: the ids registered
    pc,                   \* connection id -> where its message_handler is
    closed,               \* connection id -> its socket has been closed
    inbox,                \* connection id -> payloads received and not yet read
    sent,                 \* connection or chat id -> number of payloads sent so far
    call,                 \* session id -> the engine call in progress on it
    active,               \* session id -> number of engine calls in progress on it
    handled,              \* session id -> the payloads dispatched to the engine, in order
    tgQueue,              \* the Telegram application's update queue
    tgPc,                 \* where the Telegram application's update loop is
    tgCurrent,            \* the update the Telegram handler is processing
    stopPc,               \* where WebSocketPlatform.stop is
    stopKeys,             \* the connection ids stop has listed and not yet closed
    saved,                \* session id -> the messages the replies saved in it, in order
    wire,                 \* session id -> the payloads sent on its connection, in order
    replied,              \* the last reply operation called and how it ended
    ui,                   \* the Streamlit UI: its session state, its threads, its screen
    request,              \* the constructor call that builds the expression
    raised,               \* the error the constructor raised, or "none"
    expression,           \* the expression under evaluation
    subject,              \* the session it is evaluated on
    evaluation,           \* whether evaluate has returned, and what
    event,                \* the library predicate called and its event_params
    calls,                \* what the calls of the predicate made so far returned
    entities,             \* the perception entities under comparison
    comparison            \* what == and hash gave on them

engineVars == <<transitions, fallbackBody, globalFallbackBody, reassigned, session, last>>

ioVars == <<stopPc, stopKeys, saved, wire, replied, ui>>

platformVars == <<platform, running, connections, pc, closed, inbox, sent, call, active,
                  handled, tgQueue, tgPc, tgCurrent, ioVars>>

exprVars == <<request, raised, expression, subject, evaluation, event, calls, entities,
             comparison>>

vars == <<engineVars, platformVars, exprVars>>

-----------------------------------------------------------------------------
(* The agent of the example: two declared states and one more, two users.  *)

States == {"idle", "issue_opened", "closed"}

InitialState == "idle"

Sessions == {"u1", "u2"}

\* The events the transition predicates test; "auto" is the unconditional one.
Events == {"e1", "e2"}

Auto == "auto"

NoBody == [kind |-> "none", id |-> "none"]

Body(s) == [kind |-> "body", id |-> s]

OwnFallback(s) == [kind |-> "fallback", id |-> s]

GlobalBodies == {[kind |-> "global", id |-> "g1"], [kind |-> "global", id |-> "g2"]}

T(e, d) == [event |-> e, dest |-> d]

\* The example agent's graph: idle has three event transitions, issue_opened
\* goes back to idle unconditionally.
ExampleGraph ==
    [s \in States |->
        CASE s = "idle" -> <<T("e1", "issue_opened"), T("e2", "idle"), T("e2", "idle")>>
          [] s = "issue_opened" -> <<T(Auto, "idle")>>
          [] OTHER -> <<>>]

\* A graph whose transitions all have different targets: [T1, T2, T3] in idle.
OrderedGraph ==
    [s \in States |->
        CASE s = "idle" -> <<T("e1", "idle"), T("e2", "issue_opened"), T("e2", "closed")>>
          [] s = "issue_opened" -> <<T("e2", "closed"), T("e1", "idle")>>
          [] OTHER -> <<>>]

\* A graph with an unconditional transition declared before a conditional one.
AutoGraph ==
    [s \in States |->
        CASE s = "idle" -> <<T("e1", "closed"), T(Auto, "issue_opened"), T("e2", "closed")>>
          [] s = "issue_opened" -> <<T("e1", "issue_opened"), T("e2", "idle")>>
          [] OTHER -> <<T("e1", "idle")>>]

Graphs == {ExampleGraph, OrderedGraph, AutoGraph}

-----------------------------------------------------------------------------
(* The step of the state machine.                                          *)

\* A transition's predicate on the session: the stimulus has set the flags.
PredicateHolds(t, flags) == t.event = Auto \/ t.event \in flags

\* The transitions are tried in declaration order from index i; the scan stops
\* at the first whose predicate holds.  evaluated: the indexes tried.
RECURSIVE ScanFrom(_, _, _, _)
ScanFrom(ts, i, flags, evaluated) ==
    IF i > Len(ts) THEN [fired |-> 0, evaluated |-> evaluated]
    ELSE IF PredicateHolds(ts[i], flags)
         THEN [fired |-> i, evaluated |-> Append(evaluated, i)]
         ELSE ScanFrom(ts, i + 1, flags, Append(evaluated, i))

\* A faulty variant: every transition is evaluated and the last true one fires.
RECURSIVE ScanAllFrom(_, _, _, _, _)
ScanAllFrom(ts, i, flags, evaluated, fired) ==
    IF i > Len(ts) THEN [fired |-> fired, evaluated |-> evaluated]
    ELSE ScanAllFrom(ts, i + 1, flags, Append(evaluated, i),
                     IF PredicateHolds(ts[i], flags) THEN i ELSE fired)

ScanLastTrue(ts, flags) == ScanAllFrom(ts, 1, flags, <<>>, 0)

Scan(ts, flags) == ScanFrom(ts, 1, flags, <<>>)

\* A faulty variant: the machine's fallback is preferred to the state's own.
FallbackForGlobalFirst(own, global) ==
    IF global # NoBody THEN <<global>>
    ELSE IF own # NoBody THEN <<own>>
    ELSE <<>>

\* The fallback a non-firing step runs: the state's, else the machine's, else none.
FallbackFor(own, global) ==
    IF own # NoBody THEN <<own>>
    ELSE IF global # NoBody THEN <<global>>
    ELSE <<>>

\* A faulty variant: a step that runs a fallback sends the session back to the initial state.
StateAfterNoFireReset(s) == InitialState

\* The current state after a step in state s in which no transition fired.
StateAfterNoFire(s) == s

\* A faulty variant: the body of the state being left runs, before the move.
InvokedOnFireLeaving(s, target) == <<[body |-> Body(s), at |-> s]>>

\* What a firing step invokes: the target's body, once, the session being in the target.
InvokedOnFire(s, target) == <<[body |-> Body(target), at |-> target]>>

\* A faulty variant: a firing transition moves the session to one fixed state, whatever its target.
MoveToFixed(ts, i) == "closed"

\* The state a firing transition moves the session to.
MoveTo(ts, i) == ts[i].dest

\* One step in state s on a session whose flags the stimulus has set.
StepOutcome(s, flags, ts, own, global) ==
    LET scan == Scan(ts, flags)
    IN  IF scan.fired # 0
        THEN LET target == MoveTo(ts, scan.fired)
             IN  [currentStateId |-> target,
                  evaluated |-> scan.evaluated,
                  fired |-> scan.fired,
                  invoked |-> InvokedOnFire(s, target)]
        ELSE LET after == StateAfterNoFire(s)
             IN  [currentStateId |-> after,
                  evaluated |-> scan.evaluated,
                  fired |-> 0,
                  invoked |-> [i \in DOMAIN FallbackFor(own, global) |->
                                  [body |-> FallbackFor(own, global)[i], at |-> after]]]

NoOp == [op |-> "none", sess |-> "none", pre |-> "none", flags |-> {},
         evaluated |-> <<>>, fired |-> 0, invoked |-> <<>>, body |-> NoBody,
         own |-> NoBody, global |-> NoBody, overrode |-> {}]

\* Agent.receive_message / receive_file on session u, run to completion.
Step(u, flags) ==
    LET s == session[u].currentStateId
        out == StepOutcome(s, flags, transitions[s], fallbackBody[s], globalFallbackBody)
    IN  /\ session' = [session EXCEPT ![u] = [currentStateId |-> out.currentStateId]]
        /\ last' = [NoOp EXCEPT !.op = "step", !.sess = u, !.pre = s, !.flags = flags,
                                !.evaluated = out.evaluated, !.fired = out.fired,
                                !.invoked = out.invoked, !.own = fallbackBody[s],
                                !.global = globalFallbackBody]
        /\ UNCHANGED <<transitions, fallbackBody, globalFallbackBody, reassigned>>

\* A faulty variant: the body becomes the machine's fallback and the states keep theirs.
GlobalFallbackKeepingOwn(fb, body) == fb

\* Agent.set_global_fallback_body: "Assigned to all agent states (overriding all
\* currently assigned fallback bodies)".
GlobalFallbackAssigned(fb, body) == [s \in DOMAIN fb |-> body]

set_global_fallback_body(body) ==
    /\ fallbackBody' = GlobalFallbackAssigned(fallbackBody, body)
    /\ globalFallbackBody' = body
    /\ reassigned' = TRUE
    /\ last' = [NoOp EXCEPT !.op = "set_global_fallback_body", !.body = body,
                            !.overrode = {s \in States : fallbackBody[s] = OwnFallback(s)}]
    /\ UNCHANGED <<transitions, session>>

\* The machine after construction: a graph, each state with its own fallback, the
\* machine's (assigned by an earlier set_global_fallback_body) or none (a state
\* declared after that call), every session in the initial state.
EngineInit ==
    /\ transitions \in Graphs
    /\ globalFallbackBody \in {NoBody} \cup GlobalBodies
    /\ fallbackBody \in {f \in [States -> {NoBody} \cup {OwnFallback(s) : s \in States}
                                             \cup GlobalBodies] :
                            \A s \in States :
                                f[s] \in {NoBody, OwnFallback(s)}
                                            \cup ({globalFallbackBody} \ {NoBody})}
    /\ reassigned = FALSE
    /\ session = [u \in Sessions |-> [currentStateId |-> InitialState]]
    /\ last = NoOp

-----------------------------------------------------------------------------
(* Scenarios: perception entities, requirement leaves, boolean expressions. *)

\* A bound on the children of a boolean expression.
MaxChildren == 3

\* A bound on the object detections of a perception snapshot.
MaxDetections == 3

\* A bound on the min and max a leaf is asked to be constructed with.
MaxCount == 2

ImageEntity(name, description) ==
    [type |-> "ImageEntity", name |-> name, description |-> description]

ImageProperty(name, description) ==
    [type |-> "ImageProperty", name |-> name, description |-> description]

\* A faulty variant: the description is compared too.
RequirementEqAll(a, b) == a = b

\* ImageRequirement.__eq__: the same type and the same name.
RequirementEq(a, b) == IF b.type = a.type THEN a.name = b.name ELSE FALSE

\* ImageRequirement.__hash__: the hash of the name; a string stands for its hash.
RequirementHash(a) == a.name

\* The perception entities compared: of both kinds, with two names and two
\* descriptions.
Requirements ==
    {ImageEntity(n, d) : n \in {"person", "car"}, d \in {"none", "a person"}}
      \cup {ImageProperty(n, d) : n \in {"person", "car"}, d \in {"none", "a person"}}

NoComparison == [done |-> FALSE, eq |-> <<>>, hash |-> <<>>]

\* Nothing is compared.
EqualityIdle ==
    /\ entities = <<>>
    /\ comparison = NoComparison

\* Three perception entities about to be compared.
EqualityInit ==
    /\ entities \in [1..3 -> Requirements]
    /\ comparison = NoComparison

\* Each entity is compared with each, and hashed.
Compare ==
    /\ entities # <<>>
    /\ ~comparison.done
    /\ comparison' =
          [done |-> TRUE,
           eq |-> [i \in DOMAIN entities |->
                     [j \in DOMAIN entities |-> RequirementEq(entities[i], entities[j])]],
           hash |-> [i \in DOMAIN entities |-> RequirementHash(entities[i])]]
    /\ UNCHANGED entities

\* Scores are in hundredths.
ScenarioImageEntity(entity, score, min, max) ==
    [kind |-> "ScenarioImageEntity", target |-> entity, score |-> score,
     min |-> min, max |-> max, operator |-> "none", expressions |-> <<>>]

ScenarioImageProperty(property, score) ==
    [kind |-> "ScenarioImageProperty", target |-> property, score |-> score,
     min |-> 0, max |-> 0, operator |-> "none", expressions |-> <<>>]

BooleanExpression(operator, expressions) ==
    [kind |-> "BooleanExpression", target |-> ImageEntity("none", "none"), score |-> 0,
     min |-> 0, max |-> 0, operator |-> operator, expressions |-> expressions]

AND(expressions) == BooleanExpression("AND", expressions)

OR(expressions) == BooleanExpression("OR", expressions)

NOT(e) == BooleanExpression("NOT", <<e>>)

\* An Expression of another class, whose evaluate raises an error.
RaisingExpression ==
    [kind |-> "Expression", target |-> ImageEntity("none", "none"), score |-> 0,
     min |-> 0, max |-> 0, operator |-> "raises", expressions |-> <<>>]

\* No expression: the constructor has not returned one.
NoExpression ==
    [kind |-> "none", target |-> ImageEntity("none", "none"), score |-> 0,
     min |-> 0, max |-> 0, operator |-> "none", expressions |-> <<>>]

\* What a constructor call gives: the object, or the error raised.
Constructed(object) == [raised |-> "none", object |-> object]

Raised(error) == [raised |-> error, object |-> NoExpression]

\* A faulty variant: AND and OR accept a single child.
ArityRaisesBelowOne(operator, n) ==
    \/ operator \in {"AND", "OR"} /\ n < 1
    \/ operator = "NOT" /\ n # 1

\* The two checks of BooleanExpression.__init__ on the number of expressions.
ArityRaises(operator, n) ==
    \/ operator \in {"AND", "OR"} /\ n < 2
    \/ operator = "NOT" /\ n # 1

\* BooleanExpression.__init__.
BooleanExpressionInit(operator, expressions) ==
    IF ArityRaises(operator, Len(expressions)) THEN Raised("ValueError")
    ELSE Constructed(BooleanExpression(operator, expressions))

\* A value of an attributes dict: absent, or given with its runtime type.
Absent == [given |-> FALSE, type |-> "none", value |-> 0, text |-> ""]

FloatValue(v) == [given |-> TRUE, type |-> "float", value |-> v, text |-> ""]

IntValue(v) == [given |-> TRUE, type |-> "int", value |-> v, text |-> ""]

\* True is 1 and False is 0, of type bool.
BoolValue(v) == [given |-> TRUE, type |-> "bool", value |-> v, text |-> ""]

StrValue(t) == [given |-> TRUE, type |-> "str", value |-> 0, text |-> t]

\* The names of the attributes an attributes dict gives.
Given(attributes) == {n \in DOMAIN attributes : attributes[n].given}

\* ScenarioImageEntityAttribute.dictionary and ScenarioImagePropertyAttribute.dictionary.
EntityDictionary == [score |-> "float", min |-> "int", max |-> "int"]

PropertyDictionary == [score |-> "float"]

\* ImageEntityAttribute.dictionary and ImagePropertyAttribute.dictionary.
ImageEntityDictionary == [description |-> "str"]

ImagePropertyDictionary == [description |-> "str"]

\* A faulty variant: the type of the value is not checked.
AttributeRaisesNameOnly(dictionary, name, value) == name \notin DOMAIN dictionary

\* The attribute constructors: the name is in the dictionary and the value's
\* type is the one declared for it, or ValueError is raised.
AttributeRaises(dictionary, name, value) ==
    \/ name \notin DOMAIN dictionary
    \/ dictionary[name] # value.type

\* get_attribute_value('description') of a perception entity: None when absent.
DescriptionOf(attributes) ==
    IF attributes.description.given THEN attributes.description.text ELSE "none"

\* A perception entity as the object a constructor returns.
Entity(object) == [NoExpression EXCEPT !.kind = object.type, !.target = object]

\* ImageEntity.__init__.
ImageEntityInit(name, attributes) ==
    IF \E n \in Given(attributes) : AttributeRaises(ImageEntityDictionary, n, attributes[n])
    THEN Raised("ValueError")
    ELSE Constructed(Entity(ImageEntity(name, DescriptionOf(attributes))))

\* ImageProperty.__init__.
ImagePropertyInit(name, attributes) ==
    IF \E n \in Given(attributes) : AttributeRaises(ImagePropertyDictionary, n, attributes[n])
    THEN Raised("ValueError")
    ELSE Constructed(Entity(ImageProperty(name, DescriptionOf(attributes))))

\* A faulty variant: a leaf without a score is accepted.
ScoreMissingIgnored(names) == FALSE

\* "if 'score' not in [attribute.name for attribute in self.attributes]".
ScoreMissing(names) == "score" \notin names

\* The values appended for 'min' and 'max' when the dict gives none.
DefaultMin == 1

DefaultMax == 0

ValueOrDefault(attributes, name, default) ==
    IF attributes[name].given THEN attributes[name].value ELSE default

\* A faulty variant: min above max is accepted.
RangeRaisesMinOnly(min, max) == min < 1

\* The two range checks of ScenarioImageEntity.__init__.
RangeRaises(min, max) ==
    \/ min < 1
    \/ min > max /\ max # 0

\* ScenarioImageEntity.__init__.
ScenarioImageEntityInit(image_entity, attributes) ==
    IF \E n \in Given(attributes) : AttributeRaises(EntityDictionary, n, attributes[n])
    THEN Raised("ValueError")
    ELSE IF ScoreMissing(Given(attributes)) THEN Raised("ValueError")
    ELSE LET min == ValueOrDefault(attributes, "min", DefaultMin)
             max == ValueOrDefault(attributes, "max", DefaultMax)
         IN  IF RangeRaises(min, max) THEN Raised("ValueError")
             ELSE Constructed(ScenarioImageEntity(image_entity, attributes.score.value,
                                                  min, max))

\* ScenarioImageProperty.__init__.
ScenarioImagePropertyInit(image_property, attributes) ==
    IF \E n \in Given(attributes) : AttributeRaises(PropertyDictionary, n, attributes[n])
    THEN Raised("ValueError")
    ELSE IF ScoreMissing(Given(attributes)) THEN Raised("ValueError")
    ELSE Constructed(ScenarioImageProperty(image_property, attributes.score.value))

Prediction(target, score) == [target |-> target, score |-> score]

\* session.image_prediction is None.
NoPrediction ==
    [present |-> FALSE, image_object_predictions |-> <<>>,
     image_property_predictions |-> <<>>]

ImagePrediction(objects, properties) ==
    [present |-> TRUE, image_object_predictions |-> objects,
     image_property_predictions |-> properties]

\* A faulty variant: a detection below the threshold counts.
QualifiesAnyScore(p, e) == RequirementEq(p.target, e.target)

\* The filter of evaluate: the prediction is of the leaf's target, with a score
\* at or above the leaf's.
Qualifies(p, e) == RequirementEq(p.target, e.target) /\ p.score >= e.score

\* A faulty variant: max = 0 is taken as an upper bound like any other.
CountMatchesBounded(_min, _max, num_predictions) ==
    IF num_predictions = 0 THEN FALSE
    ELSE IF _min = 0 /\ _max = 0 THEN TRUE
    ELSE IF _min = 0 /\ num_predictions <= _max THEN TRUE
    ELSE IF _min <= num_predictions /\ num_predictions <= _max THEN TRUE
    ELSE FALSE

\* A faulty variant: the upper bound is not checked.
CountMatchesAtLeast(_min, _max, num_predictions) ==
    IF num_predictions = 0 THEN FALSE ELSE num_predictions >= _min

\* The tail of ScenarioImageEntity.evaluate: the count against min and max.
CountMatches(_min, _max, num_predictions) ==
    IF num_predictions = 0 THEN FALSE
    ELSE IF _min = 0 /\ _max = 0 THEN TRUE
    ELSE IF _min = 0 /\ num_predictions <= _max THEN TRUE
    ELSE IF _max = 0 /\ num_predictions >= _min THEN TRUE
    ELSE IF _min <= num_predictions /\ num_predictions <= _max THEN TRUE
    ELSE FALSE

\* The number of predictions the filter of evaluate keeps.
NumPredictions(e, sn) ==
    Len(SelectSeq(sn.image_prediction.image_object_predictions,
                  LAMBDA p : Qualifies(p, e)))

\* ScenarioImageEntity.evaluate.
EntityEvaluate(e, sn) ==
    IF ~sn.image_prediction.present THEN FALSE
    ELSE CountMatches(e.min, e.max, NumPredictions(e, sn))

\* A faulty variant: a prediction of any property counts.
PropertyQualifiesAnyName(p, e) == p.score >= e.score

\* The test of ScenarioImageProperty.evaluate on one prediction.
PropertyQualifies(p, e) == RequirementEq(p.target, e.target) /\ p.score >= e.score

\* ScenarioImageProperty.evaluate.
PropertyEvaluate(e, sn) ==
    IF ~sn.image_prediction.present THEN FALSE
    ELSE \E i \in DOMAIN sn.image_prediction.image_property_predictions :
            PropertyQualifies(sn.image_prediction.image_property_predictions[i], e)

\* A faulty variant: only the last child's result counts.
anyLastOnly(results) == results # <<>> /\ results[Len(results)]

\* all() and any() of a list of child results.
any(results) == \E i \in DOMAIN results : results[i]

\* A faulty variant: only the first child's result counts.
allFirstOnly(results) == results = <<>> \/ results[1]

all(results) == \A i \in DOMAIN results : results[i]

\* A faulty variant: the child's result is returned as it is.
notUnchanged(result) == result

\* "not" of the child's result.
not(result) == ~result

\* A faulty variant: the predictions are filtered in place.
PredictionsFilteredInPlace(predictions, filtered) == filtered

\* The snapshot's predictions after the filter of evaluate: the list
\* comprehension builds a new list and leaves the snapshot's own as it is.
PredictionsAfterFilter(predictions, filtered) == predictions

\* The session after ScenarioImageEntity.evaluate.
SessionAfterEntityEvaluate(e, sn) ==
    IF ~sn.image_prediction.present THEN sn
    ELSE [sn EXCEPT !.image_prediction.image_object_predictions =
                PredictionsAfterFilter(@, SelectSeq(@, LAMBDA p : Qualifies(p, e)))]

\* The session after Expression.evaluate: every child of a boolean expression
\* is evaluated, in order; a property leaf assigns nothing.
RECURSIVE SessionAfterEvaluateFrom(_, _, _)
RECURSIVE SessionAfterEvaluate(_, _)
SessionAfterEvaluateFrom(es, i, sn) ==
    IF i > Len(es) THEN sn
    ELSE SessionAfterEvaluateFrom(es, i + 1, SessionAfterEvaluate(es[i], sn))

SessionAfterEvaluate(e, sn) ==
    CASE e.kind = "ScenarioImageEntity" -> SessionAfterEntityEvaluate(e, sn)
      [] e.kind = "ScenarioImageProperty" -> sn
      [] OTHER -> SessionAfterEvaluateFrom(e.expressions, 1, sn)

\* Expression.evaluate: a leaf's, or BooleanExpression.evaluate, which evaluates
\* every child into a list and combines the list.
RECURSIVE evaluate(_, _)
evaluate(e, sn) ==
    CASE e.kind = "ScenarioImageEntity" -> EntityEvaluate(e, sn)
      [] e.kind = "ScenarioImageProperty" -> PropertyEvaluate(e, sn)
      [] e.kind = "Expression" -> FALSE
      [] OTHER ->
            LET results == [i \in DOMAIN e.expressions |-> evaluate(e.expressions[i], sn)]
            IN  CASE e.operator = "AND" -> all(results)
                  [] e.operator = "OR" -> any(results)
                  [] OTHER -> not(results[1])

\* A faulty variant: the children are evaluated one by one and evaluation stops
\* at the child that decides the result.
ChildrenEvaluatedShortCircuit(operator, results, raises) ==
    LET stops(i) == \/ raises[i]
                    \/ operator = "OR" /\ results[i]
                    \/ operator = "AND" /\ ~results[i]
    IN  IF \E i \in DOMAIN results : stops(i)
        THEN CHOOSE i \in DOMAIN results : stops(i) /\ \A j \in 1..(i - 1) : ~stops(j)
        ELSE Len(results)

\* The number of children whose evaluate BooleanExpression.evaluate calls: the
\* list comprehension calls every child's, in order, whatever the results, and
\* is left only by a child that raises.
ChildrenEvaluated(operator, results, raises) ==
    IF \E i \in DOMAIN raises : raises[i]
    THEN CHOOSE i \in DOMAIN raises : raises[i] /\ \A j \in 1..(i - 1) : ~raises[j]
    ELSE Len(results)

\* Whether Expression.evaluate raises: an error raised by a child that is
\* evaluated goes through BooleanExpression.evaluate, which catches nothing.
RECURSIVE Raises(_, _)
Raises(e, sn) ==
    CASE e.kind = "Expression" -> e.operator = "raises"
      [] e.kind = "BooleanExpression" ->
            LET results == [i \in DOMAIN e.expressions |-> evaluate(e.expressions[i], sn)]
                raises == [i \in DOMAIN e.expressions |-> Raises(e.expressions[i], sn)]
            IN  \E i \in 1..ChildrenEvaluated(e.operator, results, raises) : raises[i]
      [] OTHER -> FALSE

\* The number of children of its own that evaluate of e evaluates.
Children(e, sn) ==
    IF e.kind # "BooleanExpression" THEN 0
    ELSE ChildrenEvaluated(e.operator,
                           [i \in DOMAIN e.expressions |-> evaluate(e.expressions[i], sn)],
                           [i \in DOMAIN e.expressions |-> Raises(e.expressions[i], sn)])

Person == ImageEntity("person", "a person")

Dark == ImageProperty("dark", "a dark image")

\* The leaves of the scenarios checked: at least one person, two or three
\* persons, a dark image.
Leaves ==
    {ScenarioImageEntity(Person, 50, 1, 0),
     ScenarioImageEntity(Person, 50, 2, 3),
     ScenarioImageProperty(Dark, 70)}

\* The children a boolean expression is built from: leaves and nested expressions.
Operands ==
    Leaves \cup {NOT(ScenarioImageEntity(Person, 50, 1, 0)),
                 AND(<<ScenarioImageEntity(Person, 50, 1, 0), ScenarioImageProperty(Dark, 70)>>)}

SeqsUpTo(S, lo, hi) == UNION {[1..n -> S] : n \in lo..hi}

Expressions ==
    Leaves
      \cup {NOT(e) : e \in Operands}
      \cup {AND(es) : es \in SeqsUpTo(Operands, 2, MaxChildren)}
      \cup {OR(es) : es \in SeqsUpTo(Operands, 2, MaxChildren)}

\* What an object detection can be: a person below or at the threshold, as the
\* detector describes it, or a car.
Detections ==
    {Prediction(ImageEntity("person", "detected"), 40),
     Prediction(ImageEntity("person", "detected"), 50),
     Prediction(ImageEntity("car", "detected"), 80)}

PropertyDetections ==
    {<<>>, <<Prediction(ImageProperty("dark", "detected"), 60)>>,
     <<Prediction(ImageProperty("dark", "detected"), 70)>>,
     <<Prediction(ImageProperty("bright", "detected"), 90),
       Prediction(ImageProperty("dark", "detected"), 40)>>,
     <<Prediction(ImageProperty("dark", "detected"), 50),
       Prediction(ImageProperty("dark", "detected"), 80)>>}

Subjects ==
    {[image_prediction |-> NoPrediction]}
      \cup {[image_prediction |-> ImagePrediction(objects, properties)] :
               objects \in SeqsUpTo(Detections, 0, MaxDetections),
               properties \in PropertyDetections}

NoEvaluation == [done |-> FALSE, value |-> FALSE, children |-> 0, raised |-> FALSE]

\* The children of the expressions whose evaluation may raise.
RaisingOperands ==
    {ScenarioImageEntity(Person, 50, 1, 0), ScenarioImageProperty(Dark, 70),
     RaisingExpression}

\* AND and OR expressions some of whose children raise when evaluated.
RaisingExpressions ==
    {AND(es) : es \in SeqsUpTo(RaisingOperands, 2, MaxChildren)}
      \cup {OR(es) : es \in SeqsUpTo(RaisingOperands, 2, MaxChildren)}

\* A bound on the calls of a predicate on one session.
MaxCalls == 2

\* What a predicate call gives: the value returned ("True", "False" or
\* "None"), or the error raised.
Return(value) == [raised |-> "none", value |-> value]

Raise(error) == [raised |-> error, value |-> "none"]

Bool(b) == IF b THEN "True" ELSE "False"

\* session.flags[name]: the flag ("True" or "False"), or KeyError when the
\* mapping has no such key.
FlagNames == {"predicted_intent", "file", "image_prediction"}

FlagRaises(flags, name) == flags[name] = "absent"

\* The parameter 'allowed_types' of file_received: not given, a list of types
\* or a single string.
NoAllowedTypes == [given |-> FALSE, kind |-> "none", types |-> {}]

AllowedList(types) == [given |-> TRUE, kind |-> "list", types |-> types]

AllowedString(type) == [given |-> TRUE, kind |-> "str", types |-> {type}]

FileTypes == {"pdf", "application/pdf"}

\* "a in b" of two strings: a is a substring of b.
Substring(a, b) == a = b \/ (a = "pdf" /\ b = "application/pdf")

\* "session.file.type in allowed_types": membership in a list, substring of a string.
In(type, allowed) ==
    IF allowed.kind = "list" THEN type \in allowed.types
    ELSE \E t \in allowed.types : Substring(type, t)

\* Scenario: a name and the expression set on it.
Scenario(name, root) == [name |-> name, expression |-> root]

\* A faulty variant: a scenario is matched as soon as its expression is set.
ScenarioEvaluateSet(scenario, sn) == scenario.expression # NoExpression

\* Scenario.evaluate.
ScenarioEvaluate(scenario, sn) == evaluate(scenario.expression, sn)

\* No event: the event_params every predicate call is an amendment of.
NoEvent ==
    [name |-> "none", intent |-> "none", var_name |-> "none", target |-> 0,
     operation |-> "none", allowed_types |-> NoAllowedTypes,
     image_object |-> ImageEntity("none", "none"), score |-> 0,
     scenario |-> Scenario("none", NoExpression)]

\* The binary relation given to variable_matches_operation.
Operation(operation, current_value, target_value) ==
    CASE operation = "eq" -> current_value = target_value
      [] operation = "lt" -> current_value < target_value
      [] OTHER -> FALSE

\* The library predicates.
auto(sn, event_params) == Return("True")

\* A faulty variant: the flag is not looked at.
intent_matchedIgnoringFlag(sn, event_params) ==
    Return(Bool(event_params.intent = sn.predicted_intent))

intent_matched(sn, event_params) ==
    IF FlagRaises(sn.flags, "predicted_intent") THEN Raise("KeyError")
    ELSE IF sn.flags["predicted_intent"] = "True"
         THEN Return(Bool(event_params.intent = sn.predicted_intent))
         ELSE Return("None")

variable_matches_operation(sn, event_params) ==
    Return(Bool(Operation(event_params.operation, sn.variables[event_params.var_name],
                          event_params.target)))

file_received(sn, event_params) ==
    IF FlagRaises(sn.flags, "file") THEN Raise("KeyError")
    ELSE IF sn.flags["file"] = "True"
         THEN IF event_params.allowed_types.given
              THEN Return(Bool(\/ In(sn.file, event_params.allowed_types)
                               \/ /\ event_params.allowed_types.kind = "str"
                                  /\ sn.file \in event_params.allowed_types.types))
              ELSE Return("True")
         ELSE Return("False")

\* A faulty variant: the flag is not looked at.
image_object_detectedIgnoringFlag(sn, event_params) ==
    Return(Bool(
        \E i \in DOMAIN sn.image_prediction.image_object_predictions :
            LET p == sn.image_prediction.image_object_predictions[i]
            IN  /\ RequirementEq(p.target, event_params.image_object)
                /\ p.score >= event_params.score))

image_object_detected(sn, event_params) ==
    IF FlagRaises(sn.flags, "image_prediction") THEN Raise("KeyError")
    ELSE IF sn.flags["image_prediction"] = "True"
         THEN Return(Bool(
                \E i \in DOMAIN sn.image_prediction.image_object_predictions :
                    LET p == sn.image_prediction.image_object_predictions[i]
                    IN  /\ RequirementEq(p.target, event_params.image_object)
                        /\ p.score >= event_params.score))
         ELSE Return("False")

\* A faulty variant: the scenario is evaluated only under a true
\* 'image_prediction' flag.
scenario_matchedUnderFlag(sn, event_params) ==
    IF sn.flags["image_prediction"] = "True"
    THEN Return(Bool(ScenarioEvaluate(event_params.scenario, sn)))
    ELSE Return("False")

scenario_matched(sn, event_params) ==
    Return(Bool(ScenarioEvaluate(event_params.scenario, sn)))

\* What the predicate named returns on the session.
Predicate(name, sn, event_params) ==
    CASE name = "auto" -> auto(sn, event_params)
      [] name = "intent_matched" -> intent_matched(sn, event_params)
      [] name = "variable_matches_operation" -> variable_matches_operation(sn, event_params)
      [] name = "file_received" -> file_received(sn, event_params)
      [] name = "image_object_detected" -> image_object_detected(sn, event_params)
      [] OTHER -> scenario_matched(sn, event_params)

\* The session after the predicate named has run on it: scenario_matched
\* evaluates the scenario's expression, the others assign nothing.
SessionAfterPredicate(name, sn, event_params) ==
    IF name = "scenario_matched"
    THEN SessionAfterEvaluate(event_params.scenario.expression, sn)
    ELSE sn

\* No constructor call.
NoRequest ==
    [class |-> "none", operator |-> "none", expressions |-> <<>>,
     target |-> ImageEntity("none", "none"),
     attributes |-> [score |-> Absent, min |-> Absent, max |-> Absent]]

\* The attributes dicts a leaf is asked to be constructed with: the score
\* absent, a float or an int; min and max absent or an int from -1 to MaxCount.
AttributeDicts ==
    [score : {Absent, FloatValue(50), IntValue(50)},
     min : {Absent} \cup {IntValue(v) : v \in -1..MaxCount},
     max : {Absent} \cup {IntValue(v) : v \in -1..MaxCount}]

\* The expressions a BooleanExpression is asked to be constructed with.
RequestOperands ==
    {ScenarioImageEntity(Person, 50, 1, 0), ScenarioImageProperty(Dark, 70)}

\* The constructor calls: BooleanExpression with every operator and 0 to
\* MaxChildren expressions, the two leaves with every attributes dict.
Requests ==
    {[NoRequest EXCEPT !.class = "BooleanExpression", !.operator = op, !.expressions = es] :
        op \in {"AND", "OR", "NOT"}, es \in SeqsUpTo(RequestOperands, 0, MaxChildren)}
      \cup {[NoRequest EXCEPT !.class = "ScenarioImageEntity", !.target = Person,
                              !.attributes = a] : a \in AttributeDicts}
      \cup {[NoRequest EXCEPT !.class = "ScenarioImageProperty", !.target = Dark,
                              !.attributes = a] : a \in AttributeDicts}

\* No expression is being constructed or evaluated.
ExprIdle ==
    /\ request = NoRequest
    /\ raised = "none"
    /\ expression = NOT(ScenarioImageProperty(Dark, 70))
    /\ subject = [image_prediction |-> NoPrediction]
    /\ evaluation = NoEvaluation
    /\ event = NoEvent
    /\ calls = <<>>
    /\ EqualityIdle

\* An expression, constructed, and a session.
ExprInit ==
    /\ request = NoRequest
    /\ raised = "none"
    /\ expression \in Expressions
    /\ subject \in Subjects
    /\ evaluation = NoEvaluation
    /\ event = NoEvent
    /\ calls = <<>>
    /\ EqualityIdle

\* An expression with children that may raise, constructed, and a session.
RaisingInit ==
    /\ request = NoRequest
    /\ raised = "none"
    /\ expression \in RaisingExpressions
    /\ subject \in Subjects
    /\ evaluation = NoEvaluation
    /\ event = NoEvent
    /\ calls = <<>>
    /\ EqualityIdle

\* A constructor call about to be made, and a session.
ScenarioInit ==
    /\ request \in Requests
    /\ raised = "none"
    /\ expression = NoExpression
    /\ subject \in Subjects
    /\ evaluation = NoEvaluation
    /\ event = NoEvent
    /\ calls = <<>>
    /\ EqualityIdle

\* The constructor called returns the object or raises.
Construct(class, result) ==
    /\ request.class = class
    /\ raised = "none"
    /\ expression = NoExpression
    /\ raised' = result.raised
    /\ expression' = result.object
    /\ UNCHANGED <<request, subject, evaluation, event, calls, entities, comparison>>

ConstructBooleanExpression ==
    Construct("BooleanExpression",
              BooleanExpressionInit(request.operator, request.expressions))

ConstructScenarioImageEntity ==
    Construct("ScenarioImageEntity",
              ScenarioImageEntityInit(request.target, request.attributes))

ConstructScenarioImageProperty ==
    Construct("ScenarioImageProperty",
              ScenarioImagePropertyInit(request.target, request.attributes))

\* expression.evaluate(session) is called and returns or raises.
Evaluate ==
    /\ expression.kind \in {"BooleanExpression", "ScenarioImageEntity", "ScenarioImageProperty"}
    /\ ~evaluation.done
    /\ evaluation' = [done |-> TRUE,
                      value |-> ~Raises(expression, subject) /\ evaluate(expression, subject),
                      children |-> Children(expression, subject),
                      raised |-> Raises(expression, subject)]
    /\ subject' = SessionAfterEvaluate(expression, subject)
    /\ UNCHANGED <<request, raised, expression, event, calls, entities, comparison>>

\* The attributes dicts with values of every type: a score that is a float or
\* an int, a min that is an int or a bool, a description that is a str or an int.
TypedAttributeDicts ==
    [score : {Absent, FloatValue(50), IntValue(50)},
     min : {Absent, IntValue(1), BoolValue(1)},
     max : {Absent, IntValue(0)},
     description : {Absent, StrValue("a person"), IntValue(1)}]

\* The constructor calls of the four owners of attributes.
AttributeRequests ==
    {[NoRequest EXCEPT !.class = class, !.target = ImageEntity("person", "none"),
                       !.attributes = a] :
        class \in {"ScenarioImageEntity", "ImageEntity"}, a \in TypedAttributeDicts}
      \cup {[NoRequest EXCEPT !.class = class, !.target = ImageProperty("dark", "none"),
                              !.attributes = a] :
                class \in {"ScenarioImageProperty", "ImageProperty"},
                a \in TypedAttributeDicts}

\* A constructor call with an attributes dict about to be made, and a session.
AttributeInit ==
    /\ request \in AttributeRequests
    /\ raised = "none"
    /\ expression = NoExpression
    /\ subject \in {[image_prediction |-> NoPrediction],
                     [image_prediction |->
                         ImagePrediction(<<Prediction(ImageEntity("person", "detected"), 50)>>,
                                         <<Prediction(ImageProperty("dark", "detected"), 70)>>)]}
    /\ evaluation = NoEvaluation
    /\ event = NoEvent
    /\ calls = <<>>
    /\ EqualityIdle

ConstructImageEntity ==
    Construct("ImageEntity", ImageEntityInit(request.target.name, request.attributes))

ConstructImageProperty ==
    Construct("ImageProperty", ImagePropertyInit(request.target.name, request.attributes))

\* The snapshots the predicates are called on.
EventSnapshots ==
    {NoPrediction,
     ImagePrediction(<<Prediction(ImageEntity("person", "detected"), 40)>>, <<>>),
     ImagePrediction(<<Prediction(ImageEntity("car", "detected"), 80),
                       Prediction(ImageEntity("person", "detected"), 50)>>, <<>>)}

\* The sessions the predicates are called on: every flag absent, false or
\* true; what a true flag announces is there, and what a false one left
\* behind may be.
EventSubjects ==
    {sn \in [currentStateId : {InitialState},
             flags : [FlagNames -> {"absent", "False", "True"}],
             predicted_intent : {"none", "greet", "bye"},
             file : {"none"} \cup FileTypes,
             image_prediction : EventSnapshots,
             variables : [x : 1..2]] :
        /\ sn.flags["predicted_intent"] = "True" => sn.predicted_intent # "none"
        /\ sn.flags["file"] = "True" => sn.file # "none"
        /\ sn.flags["image_prediction"] = "True" => sn.image_prediction.present}

\* The scenarios given to scenario_matched.
Scenarios ==
    {Scenario("one_person", ScenarioImageEntity(Person, 50, 1, 1)),
     Scenario("person_not_dark",
              AND(<<ScenarioImageEntity(Person, 50, 1, 0),
                    NOT(ScenarioImageProperty(Dark, 70))>>))}

\* The predicate calls: each predicate of the library with its event_params.
EventCalls ==
    {[NoEvent EXCEPT !.name = "auto"]}
      \cup {[NoEvent EXCEPT !.name = "intent_matched", !.intent = i] : i \in {"greet", "bye"}}
      \cup {[NoEvent EXCEPT !.name = "variable_matches_operation", !.var_name = "x",
                            !.operation = op, !.target = 2] : op \in {"eq", "lt"}}
      \cup {[NoEvent EXCEPT !.name = "file_received", !.allowed_types = a] :
                a \in {NoAllowedTypes, AllowedList({"pdf"}), AllowedString("application/pdf")}}
      \cup {[NoEvent EXCEPT !.name = "image_object_detected",
                            !.image_object = ImageEntity("person", "a person"),
                            !.score = 50]}
      \cup {[NoEvent EXCEPT !.name = "scenario_matched", !.scenario = sc] : sc \in Scenarios}

\* A predicate about to be called on a session.
EventInit ==
    /\ request = NoRequest
    /\ raised = "none"
    /\ expression = NoExpression
    /\ subject \in EventSubjects
    /\ evaluation = NoEvaluation
    /\ event \in EventCalls
    /\ calls = <<>>
    /\ EqualityIdle

\* The predicate named is called with the session and the event_params, and
\* returns or raises.
Call(name) ==
    /\ event.name = name
    /\ Len(calls) < MaxCalls
    /\ calls' = Append(calls, Predicate(name, subject, event))
    /\ subject' = SessionAfterPredicate(name, subject, event)
    /\ UNCHANGED <<request, raised, expression, evaluation, event, entities, comparison>>

-----------------------------------------------------------------------------
(* The platforms: one message_handler per WebSocket connection, one update *)
(* loop for Telegram.  A session's id is its connection's or chat's id.    *)

\* A bound on the payloads the clients send, all connections or chats together.
MaxPayloads == 3

RECURSIVE Total(_, _)
Total(f, S) == IF S = {} THEN 0 ELSE LET x == CHOOSE y \in S : TRUE
                                    IN  f[x] + Total(f, S \ {x})

PayloadActions == {"USER_MESSAGE", "USER_VOICE", "USER_FILE", "AGENT_REPLY_STR", "RESET", "OTHER"}

TelegramUpdates == {"text", "reset", "voice", "document", "photo"}

NoSession == [currentStateId |-> "none", flags |-> {}, variables |-> NoBody]

NewSession == [currentStateId |-> InitialState, flags |-> {}, variables |-> NoBody]

NoCall == [op |-> "none", entered |-> NoSession, ran |-> FALSE, raised |-> "none"]

\* The agent's WebSocketPlatform and the bot's.
WebSockets == {"websocket", "bot_websocket"}

NoUpdate == [chat |-> "none", n |-> 0, kind |-> "none"]

\* No reply operation called yet.
NoReply == [operation |-> "none", session |-> "none", own |-> TRUE, raised |-> "none",
            pc |-> "none", message |-> 0]

\* The Streamlit UI before its script has run.
NoUi == [history |-> <<>>, queue |-> <<>>, screen |-> <<>>, pc |-> "none",
         rerun |-> FALSE, reset_button |-> FALSE, resets |-> 0, arrived |-> <<>>,
         n |-> 0, out |-> <<>>]

\* stop() not called, nothing replied, no UI.
IoIdle ==
    /\ stopPc = "idle"
    /\ stopKeys = {}
    /\ saved = [c \in Sessions |-> <<>>]
    /\ wire = [c \in Sessions |-> <<>>]
    /\ replied = NoReply
    /\ ui = NoUi

PlatformIdle(p) ==
    /\ IoIdle
    /\ platform = p
    /\ running = (p # "none")
    /\ connections = {}
    /\ pc = [c \in Sessions |-> "new"]
    /\ closed = [c \in Sessions |-> FALSE]
    /\ inbox = [c \in Sessions |-> <<>>]
    /\ sent = [c \in Sessions |-> 0]
    /\ call = [c \in Sessions |-> NoCall]
    /\ active = [c \in Sessions |-> 0]
    /\ handled = [c \in Sessions |-> <<>>]
    /\ tgQueue = <<>>
    /\ tgPc = "idle"
    /\ tgCurrent = NoUpdate

\* The bot's handler: it has no branch for AGENT_REPLY_STR.
BotOperationOf(action) ==
    CASE action \in {"USER_MESSAGE", "USER_VOICE"} -> "receive_message"
      [] action = "USER_FILE" -> "receive_file"
      [] action = "RESET" -> "reset"
      [] OTHER -> "none"

\* A faulty variant: the handler does not look at running.
ReadOutcomeAlways(isRunning) == "decode"

\* What the handler does with a payload it has read: with the platform stopped
\* it raises ConnectionClosedError, otherwise it goes on to decode the payload.
ReadOutcome(isRunning) == IF isRunning THEN "decode" ELSE "ConnectionClosedError"

\* A faulty variant: only ConnectionClosedError is caught.
CatchesConnectionClosedOnly(error) == error = "ConnectionClosedError"

\* The except clauses of message_handler: ConnectionClosedError and Exception.
Catches(error) == error \in {"ConnectionClosedError", "Exception"}

\* A faulty variant: the finally clause leaves _connections as it is.
RegisteredAfterFinallyKept(p, registered, c) == registered

\* _connections after the finally clause of connection c's handler: the agent's
\* deletes the entry, the bot's does not.
RegisteredAfterFinally(p, registered, c) ==
    IF p = "websocket" THEN registered \ {c} ELSE registered

\* The engine operation a WebSocket payload is dispatched to.
OperationOf(action) ==
    CASE action \in {"USER_MESSAGE", "USER_VOICE", "AGENT_REPLY_STR"} -> "receive_message"
      [] action = "USER_FILE" -> "receive_file"
      [] action = "RESET" -> "reset"
      [] OTHER -> "none"

\* A faulty variant: a payload is dispatched while the previous call is still running.
HandlerReadyAlways(c) == pc[c] \in {"recv", "call"}

\* The handler takes the next payload only at the head of its loop.
HandlerReady(c) == pc[c] = "recv"

\* A faulty variant: the most recent payload is read first.
NextPayloadNewest(q) == q[Len(q)]

\* "for payload_str in conn" yields the payloads in the order received.
NextPayload(q) == Head(q)

\* A faulty variant: the engine keeps one current session for all users.
SessionsAfterShared(ss, u, new) ==
    [v \in DOMAIN ss |-> IF v = u \/ ss[v] # NoSession THEN new ELSE ss[v]]

\* The sessions after an engine call wrote session u.
SessionsAfter(ss, u, new) == [ss EXCEPT ![u] = new]

\* The engine is entered for session u of the sessions ss: the stimulus sets the
\* session's flags.
BeginCall(ss, u, op, n, flags) ==
    LET entered == IF op = "reset" THEN ss[u] ELSE [ss[u] EXCEPT !.flags = flags]
    IN  /\ call' = [call EXCEPT ![u] = [op |-> op, entered |-> entered, ran |-> FALSE,
                                       raised |-> "none"]]
        /\ active' = [active EXCEPT ![u] = @ + 1]
        /\ handled' = [handled EXCEPT ![u] = Append(@, n)]
        /\ session' = SessionsAfter(ss, u, entered)

\* The session after the engine call op on it.
SessionAfterCall(sn, op, ts, fb, global) ==
    IF op = "reset" THEN NewSession
    ELSE LET out == StepOutcome(sn.currentStateId, sn.flags, ts[sn.currentStateId],
                                fb[sn.currentStateId], global)
         IN  [currentStateId |-> out.currentStateId,
              flags |-> sn.flags,
              variables |-> IF out.invoked = <<>> THEN sn.variables
                            ELSE out.invoked[Len(out.invoked)].body]

\* Agent.receive_message, receive_file or reset runs on session u: the step and its body.
EngineRun(u) ==
    /\ active[u] > 0
    /\ ~call[u].ran
    /\ session[u] # NoSession
    /\ session' = SessionsAfter(session, u,
                      SessionAfterCall(session[u], call[u].op, transitions, fallbackBody,
                                       globalFallbackBody))
    /\ call' = [call EXCEPT ![u].ran = TRUE]
    /\ UNCHANGED <<transitions, fallbackBody, globalFallbackBody, reassigned, last,
                   platform, running, connections, pc, closed, inbox, sent, active,
                   handled, tgQueue, tgPc, tgCurrent, ioVars, exprVars>>

\* The server, serving, accepts a connection and starts a thread for its handler.
WsAccept(c) ==
    /\ platform \in WebSockets
    /\ running
    /\ pc[c] = "new"
    /\ pc' = [pc EXCEPT ![c] = "accepted"]
    /\ UNCHANGED <<engineVars, platform, running, connections, closed, inbox, sent, call,
                   active, handled, tgQueue, tgPc, tgCurrent, ioVars, exprVars>>

\* message_handler starts: the connection is registered and its session obtained.
WsConnect(c) ==
    /\ platform \in WebSockets
    /\ pc[c] = "accepted"
    /\ connections' = connections \cup {c}
    /\ session' = SessionsAfter(session, c, NewSession)
    /\ pc' = [pc EXCEPT ![c] = "recv"]
    /\ UNCHANGED <<transitions, fallbackBody, globalFallbackBody, reassigned, last,
                   platform, running, closed, inbox, sent, call, active, handled,
                   tgQueue, tgPc, tgCurrent, ioVars, exprVars>>

\* The client sends a payload on its connection.
WsArrive(c) ==
    /\ platform \in WebSockets
    /\ pc[c] \in {"recv", "call"}
    /\ ~closed[c]
    /\ Total(sent, Sessions) < MaxPayloads
    /\ sent' = [sent EXCEPT ![c] = @ + 1]
    /\ inbox' = [inbox EXCEPT ![c] = Append(@, sent[c] + 1)]
    /\ UNCHANGED <<engineVars, platform, running, connections, pc, closed, call, active,
                   handled, tgQueue, tgPc, tgCurrent, ioVars, exprVars>>

\* The finally clause of message_handler: the session is deleted and the
\* connection removed.
WsFinally(c) ==
    /\ session' = SessionsAfter(session, c, NoSession)
    /\ connections' = RegisteredAfterFinally(platform, connections, c)
    /\ pc' = [pc EXCEPT ![c] = "done"]

\* The handler reads a payload with the platform running and dispatches it.
WsDispatch(c, action, flags) ==
    /\ platform \in WebSockets
    /\ HandlerReady(c)
    /\ inbox[c] # <<>>
    /\ ReadOutcome(running) = "decode"
    /\ LET op == IF platform = "websocket" THEN OperationOf(action)
                 ELSE BotOperationOf(action)
       IN  /\ op # "none"
           /\ BeginCall(session, c, op, NextPayload(inbox[c]), flags)
    /\ inbox' = [inbox EXCEPT ![c] =
                    SelectSeq(@, LAMBDA m : m # NextPayload(inbox[c]))]
    /\ pc' = [pc EXCEPT ![c] = "call"]
    /\ UNCHANGED <<transitions, fallbackBody, globalFallbackBody, reassigned, last,
                   platform, running, connections, closed, sent, tgQueue, tgPc, tgCurrent, ioVars, exprVars>>

\* The handler reads a payload whose action is none of those it dispatches.
WsIgnore(c) ==
    /\ platform \in WebSockets
    /\ pc[c] = "recv"
    /\ inbox[c] # <<>>
    /\ ReadOutcome(running) = "decode"
    /\ inbox' = [inbox EXCEPT ![c] = Tail(@)]
    /\ UNCHANGED <<engineVars, platform, running, connections, pc, closed, sent, call,
                   active, handled, tgQueue, tgPc, tgCurrent, ioVars, exprVars>>

\* The handler reads a payload after stop(): ConnectionClosedError is raised.
WsReadStopped(c) ==
    /\ platform \in WebSockets
    /\ pc[c] = "recv"
    /\ inbox[c] # <<>>
    /\ ReadOutcome(running) = "ConnectionClosedError"
    /\ WsFinally(c)
    /\ inbox' = [inbox EXCEPT ![c] = Tail(@)]
    /\ UNCHANGED <<transitions, fallbackBody, globalFallbackBody, reassigned, last,
                   platform, running, closed, sent, call, active, handled,
                   tgQueue, tgPc, tgCurrent, ioVars, exprVars>>

\* The engine call returns to the handler's loop.
WsReturn(c) ==
    /\ platform \in WebSockets
    /\ pc[c] = "call"
    /\ call[c].ran
    /\ call[c].raised = "none"
    /\ pc' = [pc EXCEPT ![c] = "recv"]
    /\ call' = [call EXCEPT ![c] = NoCall]
    /\ active' = [active EXCEPT ![c] = @ - 1]
    /\ UNCHANGED <<engineVars, platform, running, connections, closed, inbox, sent,
                   handled, tgQueue, tgPc, tgCurrent, ioVars, exprVars>>

\* The client closes its connection.
WsClose(c) ==
    /\ platform \in WebSockets
    /\ pc[c] \in {"recv", "call"}
    /\ ~closed[c]
    /\ closed' = [closed EXCEPT ![c] = TRUE]
    /\ UNCHANGED <<engineVars, platform, running, connections, pc, inbox, sent, call,
                   active, handled, tgQueue, tgPc, tgCurrent, ioVars, exprVars>>

\* A faulty variant: the handler ends as soon as the connection closes, also
\* in the middle of an engine call.
WsEndAnytime(c) ==
    /\ platform \in WebSockets
    /\ pc[c] \in {"recv", "call"}
    /\ closed[c]
    /\ WsFinally(c)
    /\ UNCHANGED <<transitions, fallbackBody, globalFallbackBody, reassigned, last,
                   platform, running, closed, inbox, sent, call, active, handled,
                   tgQueue, tgPc, tgCurrent, ioVars, exprVars>>

\* The handler's loop ends on a closed connection.
WsEnd(c) ==
    /\ platform \in WebSockets
    /\ pc[c] = "recv"
    /\ closed[c]
    /\ WsFinally(c)
    /\ UNCHANGED <<transitions, fallbackBody, globalFallbackBody, reassigned, last,
                   platform, running, closed, inbox, sent, call, active, handled,
                   tgQueue, tgPc, tgCurrent, ioVars, exprVars>>

\* WebSocketPlatform.stop: running is cleared and every registered socket closed.
stop ==
    /\ platform = "websocket"
    /\ running
    /\ running' = FALSE
    /\ closed' = [c \in Sessions |-> closed[c] \/ c \in connections]
    /\ UNCHANGED <<engineVars, platform, connections, pc, inbox, sent, call, active,
                   handled, tgQueue, tgPc, tgCurrent, ioVars, exprVars>>

\* A state body or a predicate raises during the engine call on session u.
EngineRaise(u) ==
    /\ active[u] > 0
    /\ ~call[u].ran
    /\ session[u] # NoSession
    /\ call' = [call EXCEPT ![u].ran = TRUE, ![u].raised = "Exception"]
    /\ UNCHANGED <<engineVars, platform, running, connections, pc, closed, inbox, sent,
                   active, handled, tgQueue, tgPc, tgCurrent, ioVars, exprVars>>

\* The handler leaves its loop by an error: the finally clause runs, and the
\* error goes out of the handler unless an except clause catches it.
WsLeave(c, error) ==
    /\ session' = SessionsAfter(session, c, NoSession)
    /\ connections' = RegisteredAfterFinally(platform, connections, c)
    /\ pc' = [pc EXCEPT ![c] = IF Catches(error) THEN "done" ELSE "crashed"]

\* The handler reads a payload that Payload.decode or File.decode refuses.
WsDecodeRaise(c) ==
    /\ platform \in WebSockets
    /\ pc[c] = "recv"
    /\ inbox[c] # <<>>
    /\ ReadOutcome(running) = "decode"
    /\ WsLeave(c, "Exception")
    /\ inbox' = [inbox EXCEPT ![c] = Tail(@)]
    /\ UNCHANGED <<transitions, fallbackBody, globalFallbackBody, reassigned, last,
                   platform, running, closed, sent, call, active, handled,
                   tgQueue, tgPc, tgCurrent, ioVars, exprVars>>

\* The engine call comes back to the handler with the error raised in it.
WsExcept(c) ==
    /\ platform \in WebSockets
    /\ pc[c] = "call"
    /\ call[c].ran
    /\ call[c].raised # "none"
    /\ WsLeave(c, call[c].raised)
    /\ call' = [call EXCEPT ![c] = NoCall]
    /\ active' = [active EXCEPT ![c] = @ - 1]
    /\ UNCHANGED <<transitions, fallbackBody, globalFallbackBody, reassigned, last,
                   platform, running, closed, inbox, sent, handled,
                   tgQueue, tgPc, tgCurrent, ioVars, exprVars>>

\* WebSocketPlatform.stop of the agent, statement by statement, as it runs
\* beside the handlers' threads: running is cleared and the keys of
\* _connections are listed.
stop_begin ==
    /\ platform = "websocket"
    /\ running
    /\ stopPc = "idle"
    /\ running' = FALSE
    /\ stopKeys' = connections
    /\ stopPc' = "closing"
    /\ UNCHANGED <<engineVars, platform, connections, pc, closed, inbox, sent, call,
                   active, handled, tgQueue, tgPc, tgCurrent, saved, wire, replied, ui,
                   exprVars>>

\* One turn of the loop of stop: self._connections[conn_id] is looked up, which
\* raises KeyError if the entry is no longer there, and its socket is closed.
stop_close(c) ==
    /\ stopPc = "closing"
    /\ c \in stopKeys
    /\ IF c \in connections
       THEN /\ closed' = [closed EXCEPT ![c] = TRUE]
            /\ stopKeys' = stopKeys \ {c}
            /\ stopPc' = stopPc
       ELSE /\ stopPc' = "raised"
            /\ UNCHANGED <<closed, stopKeys>>
    /\ UNCHANGED <<engineVars, platform, running, connections, pc, inbox, sent, call,
                   active, handled, tgQueue, tgPc, tgCurrent, saved, wire, replied, ui,
                   exprVars>>

\* The loop of stop is over: the server is shut down and stop returns.
stop_end ==
    /\ stopPc = "closing"
    /\ stopKeys = {}
    /\ stopPc' = "done"
    /\ UNCHANGED <<engineVars, platform, running, connections, pc, closed, inbox, sent,
                   call, active, handled, tgQueue, tgPc, tgCurrent, stopKeys, saved, wire,
                   replied, ui, exprVars>>

\* WebSocketPlatform.stop of the bot: the server is shut down and running cleared.
bot_stop ==
    /\ platform = "bot_websocket"
    /\ running
    /\ running' = FALSE
    /\ stopPc' = "done"
    /\ UNCHANGED <<engineVars, platform, connections, pc, closed, inbox, sent, call,
                   active, handled, tgQueue, tgPc, tgCurrent, stopKeys, saved, wire,
                   replied, ui, exprVars>>

\* get_or_create_session.
WithSession(ss, u) == IF ss[u] = NoSession THEN SessionsAfter(ss, u, NewSession) ELSE ss

\* A bound on the messages the replies save, all sessions together.
MaxReplies == 3

\* The reply operations of the agent's WebSocketPlatform.
ReplyOperations ==
    {"reply", "reply_markdown", "reply_html", "reply_file", "reply_image",
     "reply_dataframe", "reply_options", "reply_plotly", "reply_location", "reply_rag"}

\* A faulty variant: only reply looks at the session's platform.
MismatchRaisesInReplyOnly(operation, own) == operation = "reply" /\ ~own

\* Every reply operation begins with "if session.platform is not self: raise
\* PlatformMismatchError": own tells whether the session's platform is this one.
MismatchRaises(operation, own) == operation \in ReplyOperations /\ ~own

\* A faulty variant: the connection is looked up without asking whether it is there.
SendOutcomeUnguarded(registered, isClosed, s) ==
    IF s \notin registered THEN "KeyError"
    ELSE IF isClosed THEN "ConnectionClosed" ELSE "sent"

\* What _send does for session s: nothing if its id is not in _connections,
\* else conn.send, which raises on a closed connection.
SendOutcome(registered, isClosed, s) ==
    IF s \notin registered THEN "nothing"
    ELSE IF isClosed THEN "ConnectionClosed" ELSE "sent"

\* A reply operation is called with session s, up to its call of _send: the
\* platform is checked and the message saved in the session.
Reply(operation, s, own) ==
    /\ platform = "websocket"
    /\ replied.pc # "saved"
    /\ Total([c \in Sessions |-> Len(saved[c])], Sessions) < MaxReplies
    /\ IF MismatchRaises(operation, own)
       THEN /\ replied' = [operation |-> operation, session |-> s, own |-> own,
                           raised |-> "PlatformMismatchError", pc |-> "done",
                           message |-> 0]
            /\ UNCHANGED saved
       ELSE /\ saved' = [saved EXCEPT ![s] =
                            Append(@, [content |-> Len(@) + 1, is_user |-> FALSE])]
            /\ replied' = [operation |-> operation, session |-> s, own |-> own,
                           raised |-> "none", pc |-> "saved",
                           message |-> Len(saved[s]) + 1]
    /\ UNCHANGED <<engineVars, platform, running, connections, pc, closed, inbox, sent,
                   call, active, handled, tgQueue, tgPc, tgCurrent, stopPc, stopKeys,
                   wire, ui, exprVars>>

\* _send, called by the reply operation: the session is obtained from the
\* agent, the message processed, and the payload sent if the session's id is
\* in _connections.
Send ==
    /\ replied.pc = "saved"
    /\ LET s == replied.session
           outcome == SendOutcome(connections, closed[s], s)
       IN  /\ session' = WithSession(session, s)
           /\ wire' = IF outcome = "sent"
                      THEN [wire EXCEPT ![s] =
                               Append(@, [message |-> replied.message, processed |-> TRUE])]
                      ELSE wire
           /\ replied' = [replied EXCEPT
                             !.pc = "done",
                             !.raised = IF outcome \in {"sent", "nothing"} THEN "none"
                                        ELSE outcome]
    /\ UNCHANGED <<transitions, fallbackBody, globalFallbackBody, reassigned, last,
                   platform, running, connections, pc, closed, inbox, sent,
                   call, active, handled, tgQueue, tgPc, tgCurrent, stopPc, stopKeys,
                   saved, ui, exprVars>>

\* Bounds on the replies the UI receives and on the clicks on "Reset bot".
MaxMessages == 3

MaxResets == 1

\* The actions of the payloads the bot's WebSocketPlatform sends.
BotReplyActions ==
    {"BOT_REPLY_STR", "BOT_REPLY_FILE", "BOT_REPLY_DF", "BOT_REPLY_OPTIONS",
     "BOT_REPLY_PLOTLY"}

\* A faulty variant: the message of every payload is taken as it is.
MessageOfAny(action) == "str"

\* The message on_message makes of a payload: the local variable is assigned
\* in the branches for BOT_REPLY_STR and BOT_REPLY_DF only, and reading it
\* after another action raises UnboundLocalError.
MessageOf(action) ==
    CASE action = "BOT_REPLY_STR" -> "str"
      [] action = "BOT_REPLY_DF" -> "DataFrame"
      [] OTHER -> "UnboundLocalError"

\* on_message, on the websocket thread: the payload is decoded, its message
\* put on the queue of the session state and a rerun of the script requested.
on_message(action) ==
    /\ ui.pc # "none"
    /\ ui.n < MaxMessages
    /\ ui' = IF MessageOf(action) = "UnboundLocalError"
             THEN [ui EXCEPT !.n = @ + 1, !.arrived = Append(@, ui.n + 1)]
             ELSE [ui EXCEPT !.n = @ + 1, !.arrived = Append(@, ui.n + 1),
                             !.queue = Append(@, ui.n + 1), !.rerun = TRUE]
    /\ UNCHANGED <<engineVars, platform, running, connections, pc, closed, inbox, sent,
                   call, active, handled, tgQueue, tgPc, tgCurrent, stopPc, stopKeys,
                   saved, wire, replied, exprVars>>

\* What the script does, all but ui left as it is.
Script(after) ==
    /\ ui' = after
    /\ UNCHANGED <<engineVars, platform, running, connections, pc, closed, inbox, sent,
                   call, active, handled, tgQueue, tgPc, tgCurrent, stopPc, stopKeys,
                   saved, wire, replied, exprVars>>

\* The user clicks "Reset bot": the script is run again with the button set.
click_reset ==
    /\ ui.pc # "none"
    /\ ui.resets < MaxResets
    /\ Script([ui EXCEPT !.reset_button = TRUE, !.rerun = TRUE, !.resets = @ + 1])

\* main starts, for the first time or on a rerun request, which stops the run
\* in progress at its next call into Streamlit.
main ==
    /\ ui.pc = "none" \/ ui.rerun
    /\ Script([ui EXCEPT !.pc = "sidebar", !.rerun = FALSE, !.screen = <<>>])

\* The sidebar: with the button set, the history and the queue are replaced
\* by empty ones and a RESET payload is sent.
sidebar ==
    /\ ui.pc = "sidebar"
    /\ Script(IF ui.reset_button
              THEN [ui EXCEPT !.pc = "history", !.reset_button = FALSE,
                              !.history = <<>>, !.queue = <<>>, !.arrived = <<>>,
                              !.out = Append(@, "RESET")]
              ELSE [ui EXCEPT !.pc = "history"])

\* The messages of the history are written to the screen.
show_history ==
    /\ ui.pc = "history"
    /\ Script([ui EXCEPT !.pc = "drain",
                         !.screen = [i \in DOMAIN ui.history |-> ui.history[i].message]])

\* One turn of the loop on the queue, up to the display: the message is taken
\* from the queue and appended to the history.
take ==
    /\ ui.pc = "drain"
    /\ ui.queue # <<>>
    /\ Script([ui EXCEPT !.pc = "show", !.queue = Tail(@),
                         !.history = Append(@, [message |-> Head(ui.queue), who |-> 0])])

\* The message taken is written to the screen.
show ==
    /\ ui.pc = "show"
    /\ Script([ui EXCEPT !.pc = "drain",
                         !.screen = Append(@, ui.history[Len(ui.history)].message)])

\* The queue is empty: the script stops.
st_stop ==
    /\ ui.pc = "drain"
    /\ ui.queue = <<>>
    /\ Script([ui EXCEPT !.pc = "stopped"])

\* A Telegram user sends an update in a chat.
TgArrive(chat) ==
    /\ platform = "telegram"
    /\ Total(sent, Sessions) < MaxPayloads
    /\ sent' = [sent EXCEPT ![chat] = @ + 1]
    /\ tgQueue' = Append(tgQueue, [chat |-> chat, n |-> sent[chat] + 1])
    /\ UNCHANGED <<engineVars, platform, running, connections, pc, closed, inbox, call,
                   active, handled, tgPc, tgCurrent, ioVars, exprVars>>

\* The bot operation a Telegram handler calls.
TelegramOperationOf(kind) ==
    CASE kind \in {"text", "voice"} -> "receive_message"
      [] kind = "reset" -> "reset"
      [] OTHER -> "receive_file"

\* The application takes the next update and runs its handler up to the call
\* into the bot (message, reset) or up to its first await (voice, file, image).
\* The reset handler obtains no session: without one there is nothing to reset.
TgTake(kind, flags) ==
    /\ platform = "telegram"
    /\ tgPc = "idle"
    /\ tgQueue # <<>>
    /\ LET u == [chat |-> Head(tgQueue).chat, n |-> Head(tgQueue).n, kind |-> kind]
       IN  CASE kind = "reset" /\ session[u.chat] = NoSession ->
                    UNCHANGED <<session, call, active, handled, tgPc, tgCurrent>>
             [] kind = "reset" /\ session[u.chat] # NoSession ->
                    /\ BeginCall(session, u.chat, "reset", u.n, flags)
                    /\ tgPc' = "call"
                    /\ tgCurrent' = u
             [] kind = "text" ->
                    /\ BeginCall(WithSession(session, u.chat), u.chat, "receive_message",
                                 u.n, flags)
                    /\ tgPc' = "call"
                    /\ tgCurrent' = u
             [] OTHER ->
                    /\ session' = WithSession(session, u.chat)
                    /\ tgPc' = "await"
                    /\ tgCurrent' = u
                    /\ UNCHANGED <<call, active, handled>>
    /\ tgQueue' = Tail(tgQueue)
    /\ UNCHANGED <<transitions, fallbackBody, globalFallbackBody, reassigned, last,
                   platform, running, connections, pc, closed, inbox, sent, ioVars, exprVars>>

\* The awaited download completes and the handler calls into the bot.
TgResume(flags) ==
    /\ platform = "telegram"
    /\ tgPc = "await"
    /\ BeginCall(session, tgCurrent.chat, TelegramOperationOf(tgCurrent.kind),
                 tgCurrent.n, flags)
    /\ tgPc' = "call"
    /\ UNCHANGED <<transitions, fallbackBody, globalFallbackBody, reassigned, last,
                   platform, running, connections, pc, closed, inbox, sent, tgQueue,
                   tgCurrent, ioVars, exprVars>>

\* The handler returns and the application goes on to the next update.
TgReturn ==
    /\ platform = "telegram"
    /\ tgPc = "call"
    /\ call[tgCurrent.chat].ran
    /\ tgPc' = "idle"
    /\ tgCurrent' = NoUpdate
    /\ call' = [call EXCEPT ![tgCurrent.chat] = NoCall]
    /\ active' = [active EXCEPT ![tgCurrent.chat] = @ - 1]
    /\ UNCHANGED <<engineVars, platform, running, connections, pc, closed, inbox, sent,
                   handled, tgQueue, ioVars, exprVars>>

\* An agent serving WebSocket connections or Telegram chats: a graph with
\* transitions out of every state, idle with its own fallback, a global
\* fallback on the machine.
PlatformInit ==
    /\ transitions = AutoGraph
    /\ globalFallbackBody = [kind |-> "global", id |-> "g1"]
    /\ fallbackBody = [s \in States |-> IF s = "idle" THEN OwnFallback(s) ELSE NoBody]
    /\ reassigned = FALSE
    /\ session = [u \in Sessions |-> NoSession]
    /\ last = NoOp
    /\ \E p \in {"websocket", "telegram"} : PlatformIdle(p)
    /\ ExprIdle

PlatformNext ==
    \/ \E c \in Sessions : WsAccept(c)
    \/ \E c \in Sessions : WsConnect(c)
    \/ \E c \in Sessions : WsArrive(c)
    \/ \E c \in Sessions, action \in PayloadActions, flags \in SUBSET Events :
          WsDispatch(c, action, flags)
    \/ \E c \in Sessions : WsIgnore(c)
    \/ \E c \in Sessions : WsReadStopped(c)
    \/ \E c \in Sessions : WsReturn(c)
    \/ \E c \in Sessions : WsClose(c)
    \/ \E c \in Sessions : WsEnd(c)
    \/ stop
    \/ \E u \in Sessions : EngineRun(u)
    \/ \E chat \in Sessions : TgArrive(chat)
    \/ \E kind \in TelegramUpdates, flags \in SUBSET Events : TgTake(kind, flags)
    \/ \E flags \in SUBSET Events : TgResume(flags)
    \/ TgReturn

SpecPlatform == PlatformInit /\ [][PlatformNext]_vars

\* The agent's or the bot's WebSocketPlatform with what ends a handler: the
\* client's close, an error in decoding or in the engine call, and stop()
\* running beside the handlers.
HandlerInit ==
    /\ transitions = AutoGraph
    /\ globalFallbackBody = [kind |-> "global", id |-> "g1"]
    /\ fallbackBody = [s \in States |-> IF s = "idle" THEN OwnFallback(s) ELSE NoBody]
    /\ reassigned = FALSE
    /\ session = [u \in Sessions |-> NoSession]
    /\ last = NoOp
    /\ \E p \in WebSockets : PlatformIdle(p)
    /\ ExprIdle

\* The flags every stimulus sets here: what the engine does with them is not
\* what ends a handler.
HandlerFlags == {"e1"}

HandlerNext ==
    \/ \E c \in Sessions : WsAccept(c)
    \/ \E c \in Sessions : WsConnect(c)
    \/ \E c \in Sessions : WsArrive(c)
    \/ \E c \in Sessions, action \in PayloadActions : WsDispatch(c, action, HandlerFlags)
    \/ \E c \in Sessions : WsIgnore(c)
    \/ \E c \in Sessions : WsDecodeRaise(c)
    \/ \E c \in Sessions : WsReadStopped(c)
    \/ \E c \in Sessions : WsReturn(c)
    \/ \E c \in Sessions : WsExcept(c)
    \/ \E c \in Sessions : WsClose(c)
    \/ \E c \in Sessions : WsEnd(c)
    \/ \E u \in Sessions : EngineRun(u)
    \/ \E u \in Sessions : EngineRaise(u)
    \/ stop_begin
    \/ \E c \in Sessions : stop_close(c)
    \/ stop_end
    \/ bot_stop

SpecHandler == HandlerInit /\ [][HandlerNext]_vars

\* The agent's WebSocketPlatform replying, for sessions of its own and of
\* another platform, while connections come and go.
ReplyInit ==
    /\ transitions = AutoGraph
    /\ globalFallbackBody = [kind |-> "global", id |-> "g1"]
    /\ fallbackBody = [s \in States |-> IF s = "idle" THEN OwnFallback(s) ELSE NoBody]
    /\ reassigned = FALSE
    /\ session = [u \in Sessions |-> NoSession]
    /\ last = NoOp
    /\ PlatformIdle("websocket")
    /\ ExprIdle

ReplyNext ==
    \/ \E c \in Sessions : WsAccept(c)
    \/ \E c \in Sessions : WsConnect(c)
    \/ \E c \in Sessions : WsClose(c)
    \/ \E c \in Sessions : WsEnd(c)
    \/ \E operation \in ReplyOperations, s \in Sessions, own \in BOOLEAN :
          Reply(operation, s, own)
    \/ Send

SpecReply == ReplyInit /\ [][ReplyNext]_vars

\* The Streamlit UI of the bot: its script and its websocket thread.
UiNext ==
    \/ \E action \in BotReplyActions : on_message(action)
    \/ click_reset
    \/ main
    \/ sidebar
    \/ show_history
    \/ take
    \/ show
    \/ st_stop

UiInit ==
    /\ transitions = AutoGraph
    /\ globalFallbackBody = [kind |-> "global", id |-> "g1"]
    /\ fallbackBody = [s \in States |-> IF s = "idle" THEN OwnFallback(s) ELSE NoBody]
    /\ reassigned = FALSE
    /\ session = [u \in Sessions |-> NoSession]
    /\ last = NoOp
    /\ PlatformIdle("bot_websocket")
    /\ ExprIdle

SpecUi == UiInit /\ [][UiNext]_vars

\* An engine call is a synchronous call on the handler's own thread, which
\* nothing suspends: a call that was entered keeps being scheduled.
SpecPlatformFair ==
    /\ PlatformInit
    /\ [][PlatformNext]_vars
    /\ \A u \in Sessions : WF_vars(EngineRun(u))

\* The example agent as constructed, no step taken.
EngineIdle ==
    /\ transitions = ExampleGraph
    /\ globalFallbackBody = [kind |-> "global", id |-> "g1"]
    /\ fallbackBody = [s \in States |-> globalFallbackBody]
    /\ reassigned = FALSE
    /\ session = [u \in Sessions |-> [currentStateId |-> InitialState]]
    /\ last = NoOp

\* The engine alone: no platform is started.
EngineSpecInit == EngineInit /\ PlatformIdle("none") /\ ExprIdle

EngineNext ==
    \/ \E u \in Sessions, flags \in SUBSET Events :
          Step(u, flags) /\ UNCHANGED <<platformVars, exprVars>>
    \/ \E body \in GlobalBodies :
          set_global_fallback_body(body) /\ UNCHANGED <<platformVars, exprVars>>

SpecEngine == EngineSpecInit /\ [][EngineNext]_vars

\* An expression evaluated on a session, the agent being at rest.
ExprSpecInit == EngineIdle /\ PlatformIdle("none") /\ ExprInit

ExprNext == Evaluate /\ UNCHANGED <<engineVars, platformVars>>

SpecExpr == ExprSpecInit /\ [][ExprNext]_vars

\* An expression whose children may raise, evaluated on a session.
RaisingSpecInit == EngineIdle /\ PlatformIdle("none") /\ RaisingInit

SpecRaising == RaisingSpecInit /\ [][ExprNext]_vars

\* An expression constructed and then evaluated on a session, the agent being
\* at rest.
ScenarioSpecInit == EngineIdle /\ PlatformIdle("none") /\ ScenarioInit

ScenarioNext ==
    \/ ConstructBooleanExpression /\ UNCHANGED <<engineVars, platformVars>>
    \/ ConstructScenarioImageEntity /\ UNCHANGED <<engineVars, platformVars>>
    \/ ConstructScenarioImageProperty /\ UNCHANGED <<engineVars, platformVars>>
    \/ Evaluate /\ UNCHANGED <<engineVars, platformVars>>

SpecScenario == ScenarioSpecInit /\ [][ScenarioNext]_vars

\* An owner of attributes constructed, and evaluated if it is a leaf.
AttributeSpecInit == EngineIdle /\ PlatformIdle("none") /\ AttributeInit

AttributeNext ==
    \/ ConstructScenarioImageEntity /\ UNCHANGED <<engineVars, platformVars>>
    \/ ConstructScenarioImageProperty /\ UNCHANGED <<engineVars, platformVars>>
    \/ ConstructImageEntity /\ UNCHANGED <<engineVars, platformVars>>
    \/ ConstructImageProperty /\ UNCHANGED <<engineVars, platformVars>>
    \/ Evaluate /\ UNCHANGED <<engineVars, platformVars>>

SpecAttribute == AttributeSpecInit /\ [][AttributeNext]_vars

\* Perception entities compared, the agent being at rest.
EqualitySpecInit ==
    /\ EngineIdle
    /\ PlatformIdle("none")
    /\ request = NoRequest
    /\ raised = "none"
    /\ expression = NoExpression
    /\ subject = [image_prediction |-> NoPrediction]
    /\ evaluation = NoEvaluation
    /\ event = NoEvent
    /\ calls = <<>>
    /\ EqualityInit

EqualityNext ==
    Compare /\ UNCHANGED <<engineVars, platformVars, request, raised, expression, subject,
                           evaluation, event, calls>>

SpecEquality == EqualitySpecInit /\ [][EqualityNext]_vars

\* A library predicate called on a session, the agent being at rest.
EventSpecInit == EngineIdle /\ PlatformIdle("none") /\ EventInit

EventNext ==
    \/ Call("auto") /\ UNCHANGED <<engineVars, platformVars>>
    \/ Call("intent_matched") /\ UNCHANGED <<engineVars, platformVars>>
    \/ Call("variable_matches_operation") /\ UNCHANGED <<engineVars, platformVars>>
    \/ Call("file_received") /\ UNCHANGED <<engineVars, platformVars>>
    \/ Call("image_object_detected") /\ UNCHANGED <<engineVars, platformVars>>
    \/ Call("scenario_matched") /\ UNCHANGED <<engineVars, platformVars>>

SpecEvent == EventSpecInit /\ [][EventNext]_vars

-----------------------------------------------------------------------------
(* The state machine's step: claims C1 to C7, under SpecEngine.            *)

LastStep == last.op = "step"

LastCurrent == session[last.sess].currentStateId

\* The indexes of the transitions of the last step's state whose predicate held.
LastHolding ==
    {i \in DOMAIN transitions[last.pre] :
        PredicateHolds(transitions[last.pre][i], last.flags)}

InvokedBodies == [i \in DOMAIN last.invoked |-> last.invoked[i].body]

\* C1: in a step the transitions are evaluated in declaration order and the
\* earliest one whose predicate is true fires: the session is in its target and
\* no transition declared after it was fired or evaluated.
C1_FirstTrueFires ==
    LastStep =>
        \A i \in LastHolding :
            (\A j \in LastHolding : i <= j) =>
                /\ last.fired = i
                /\ LastCurrent = transitions[last.pre][i].dest
                /\ last.evaluated = [k \in 1..i |-> k]

\* T1 false, T2 true, T3 true: the session went to T2's target.
C1_Witness ==
    /\ LastStep
    /\ last.pre = "idle"
    /\ transitions = OrderedGraph
    /\ LastHolding = {2, 3}
    /\ last.fired = 2
    /\ LastCurrent = "issue_opened"

\* C2: a step in which no transition fires leaves the session's current state
\* as it was, whether or not a fallback body ran.
C2_NoFireKeepsState ==
    (LastStep /\ last.fired = 0) => LastCurrent = last.pre

C2_Witness ==
    /\ LastStep
    /\ last.fired = 0
    /\ last.pre = "issue_opened"
    /\ last.invoked # <<>>
    /\ LastCurrent = "issue_opened"

\* C3: when no transition fires, the state's own fallback body runs if it is
\* set, otherwise the machine's if it is set, otherwise nothing; the machine's
\* never runs for a state that has its own, and no state body runs.
C3_FallbackPriority ==
    (LastStep /\ last.fired = 0) =>
        /\ Len(last.invoked) <= 1
        /\ last.own # NoBody => InvokedBodies = <<last.own>>
        /\ (last.own = NoBody /\ last.global # NoBody) => InvokedBodies = <<last.global>>
        /\ (last.own = NoBody /\ last.global = NoBody) => InvokedBodies = <<>>
        /\ \A i \in DOMAIN last.invoked : last.invoked[i].body.kind # "body"

\* A state with its own fallback and a different one on the machine ran its own.
C3_Witness ==
    /\ LastStep
    /\ last.fired = 0
    /\ last.own = OwnFallback(last.pre)
    /\ last.global \in GlobalBodies
    /\ InvokedBodies = <<last.own>>

\* C4 as stated: reassigning the global fallback body leaves the fallback of
\* every state that has its own as it was.
C4_OwnFallbackUnaffected ==
    [][last'.op = "set_global_fallback_body" =>
          \A s \in States :
              fallbackBody[s] = OwnFallback(s) =>
                  FallbackFor(fallbackBody'[s], globalFallbackBody')
                      = FallbackFor(fallbackBody[s], globalFallbackBody)]_vars

\* C4 as amended: reassigning the global fallback body changes the fallback of
\* every state of the machine, those with their own fallback included: each
\* runs the newly assigned body on a non-firing step.
C4_ReassignmentOverridesAll ==
    [][last'.op = "set_global_fallback_body" =>
          \A s \in States :
              FallbackFor(fallbackBody'[s], globalFallbackBody') = <<last'.body>>]_vars

\* A reassignment has just overridden the own fallback of some state.
C4_Witness ==
    /\ last.op = "set_global_fallback_body"
    /\ last.overrode # {}
    /\ \A s \in last.overrode : FallbackFor(fallbackBody[s], globalFallbackBody) = <<last.body>>

\* C5: set_global_fallback_body assigns the body to all states, overriding the
\* fallbacks they had: a later non-firing step in any state runs that body.
C5_GlobalAssignedToAll ==
    (reassigned /\ LastStep /\ last.fired = 0) =>
        /\ InvokedBodies = <<globalFallbackBody>>
        /\ \A s \in States : fallbackBody[s] = globalFallbackBody

C5_Witness ==
    /\ reassigned
    /\ LastStep
    /\ last.fired = 0
    /\ last.pre = "closed"
    /\ InvokedBodies = <<globalFallbackBody>>

\* C6: when a transition fires the session is in the transition's target and
\* the target's body is invoked exactly once, with the session already in the
\* target; neither the body of the state left nor a fallback is invoked.
C6_FireRunsTargetBody ==
    (LastStep /\ last.fired # 0) =>
        /\ LastCurrent = transitions[last.pre][last.fired].dest
        /\ last.invoked = <<[body |-> Body(LastCurrent), at |-> LastCurrent]>>

C6_Witness ==
    /\ LastStep
    /\ last.fired # 0
    /\ last.pre = "issue_opened"
    /\ LastCurrent = "idle"
    /\ InvokedBodies = <<Body("idle")>>

\* C7: every session has one current state, a state of the machine: at first
\* the initial state, and after an operation unchanged or the target of a
\* transition of the state it was in.
C7_CurrentStateValid ==
    /\ \A u \in Sessions : session[u].currentStateId = InitialState
    /\ [][\A u \in Sessions :
            /\ session'[u].currentStateId \in States
            /\ \/ session'[u].currentStateId = session[u].currentStateId
               \/ \E i \in DOMAIN transitions[session[u].currentStateId] :
                     transitions[session[u].currentStateId][i].dest
                         = session'[u].currentStateId]_vars

\* The two sessions are in different states, neither the initial one.
C7_Witness ==
    /\ session["u1"].currentStateId = "issue_opened"
    /\ session["u2"].currentStateId = "closed"

-----------------------------------------------------------------------------
(* The platforms and the sessions: claims C8 and C9, under SpecPlatform.   *)

\* C8: no two engine calls for the same session overlap, and a connection's
\* or chat's payloads are dispatched to the engine in the order they arrived.
C8_StepsSerialized ==
    \A u \in Sessions :
        /\ active[u] <= 1
        /\ \A i, j \in DOMAIN handled[u] : i < j => handled[u][i] < handled[u][j]

\* Two payloads of one connection have been dispatched, the second still
\* running, while a call for the other connection is running too.
C8_Witness ==
    /\ platform = "websocket"
    /\ handled["u1"] = <<1, 2>>
    /\ active["u1"] = 1
    /\ active["u2"] = 1

\* C9: an operation changes at most one session, the session an engine call
\* leaves is the one the call alone makes of the session it entered with,
\* whatever ran on other sessions meanwhile, and the graph is never changed.
C9_SessionsIsolated ==
    [][/\ transitions' = transitions
       /\ fallbackBody' = fallbackBody
       /\ globalFallbackBody' = globalFallbackBody
       /\ \A u \in Sessions :
            /\ session'[u] # session[u] =>
                  \A v \in Sessions \ {u} : session'[v] = session[v]
            /\ (~call[u].ran /\ call'[u].ran) =>
                  session'[u] = SessionAfterCall(call[u].entered, call[u].op, transitions,
                                                 fallbackBody, globalFallbackBody)]_vars

\* The call of one session has run while the call of the other, entered
\* before, has not yet; the sessions are in different states.
C9_Witness ==
    /\ platform = "websocket"
    /\ call["u1"].op = "receive_message"
    /\ call["u1"].ran
    /\ call["u2"].op = "receive_file"
    /\ ~call["u2"].ran
    /\ session["u1"].currentStateId = "closed"
    /\ session["u2"].currentStateId = "issue_opened"

-----------------------------------------------------------------------------
(* Boolean expressions: claim C10, under SpecExpr.                         *)

Evaluated(operator) ==
    /\ evaluation.done
    /\ expression.kind = "BooleanExpression"
    /\ expression.operator = operator

\* C10: an AND expression with two or more children evaluates true exactly
\* when every child evaluates true on the session.
C10_AndIffEveryChild ==
    (Evaluated("AND") /\ Len(expression.expressions) >= 2) =>
        (evaluation.value
            <=> \A i \in DOMAIN expression.expressions :
                    evaluate(expression.expressions[i], subject))

\* An AND of three children was false although its first two children are
\* true: the last child alone decided it.
C10_Witness ==
    /\ Evaluated("AND")
    /\ Len(expression.expressions) = 3
    /\ ~evaluation.value
    /\ evaluate(expression.expressions[1], subject)
    /\ evaluate(expression.expressions[2], subject)
    /\ ~evaluate(expression.expressions[3], subject)

\* C11: an OR expression with two or more children evaluates true exactly
\* when at least one child evaluates true on the session.
C11_OrIffSomeChild ==
    (Evaluated("OR") /\ Len(expression.expressions) >= 2) =>
        (evaluation.value
            <=> \E i \in DOMAIN expression.expressions :
                    evaluate(expression.expressions[i], subject))

\* An OR of three children was true although its first two children are
\* false: the last child alone decided it.
C11_Witness ==
    /\ Evaluated("OR")
    /\ Len(expression.expressions) = 3
    /\ evaluation.value
    /\ ~evaluate(expression.expressions[1], subject)
    /\ ~evaluate(expression.expressions[2], subject)
    /\ evaluate(expression.expressions[3], subject)

\* C12: a NOT expression evaluates to the negation of its single child's
\* result, so NOT(NOT(e)) evaluates to what e evaluates to.
C12_NotNegates ==
    Evaluated("NOT") =>
        LET child == expression.expressions[1]
        IN  /\ Len(expression.expressions) = 1
            /\ evaluation.value = ~evaluate(child, subject)
            /\ (child.kind = "BooleanExpression" /\ child.operator = "NOT") =>
                   evaluation.value = evaluate(child.expressions[1], subject)

\* NOT(NOT(e)) was evaluated on a session where e is true, and is true.
C12_Witness ==
    /\ Evaluated("NOT")
    /\ expression.expressions[1].kind = "BooleanExpression"
    /\ expression.expressions[1].operator = "NOT"
    /\ evaluate(expression.expressions[1].expressions[1], subject)
    /\ evaluation.value

-----------------------------------------------------------------------------
(* Construction and leaves: claims C13 to C20, under SpecScenario.         *)

\* The constructor called for the class has returned or raised.
Returned(class) ==
    /\ request.class = class
    /\ raised # "none" \/ expression # NoExpression

\* C13: constructing a boolean expression raises, and gives no expression,
\* when AND or OR gets fewer than 2 children or NOT gets other than 1; it
\* succeeds otherwise, so every BooleanExpression has the arity of its operator.
C13_ArityChecked ==
    LET n == Len(request.expressions)
        bad == \/ request.operator \in {"AND", "OR"} /\ n < 2
               \/ request.operator = "NOT" /\ n # 1
    IN  /\ Returned("BooleanExpression") =>
              IF bad THEN raised # "none" /\ expression = NoExpression
              ELSE /\ raised = "none"
                   /\ expression.kind = "BooleanExpression"
                   /\ expression.operator = request.operator
                   /\ expression.expressions = request.expressions
        /\ expression.kind = "BooleanExpression" =>
              IF expression.operator = "NOT" THEN Len(expression.expressions) = 1
              ELSE Len(expression.expressions) >= 2

\* BooleanExpression was called with AND and one child, and raised.
C13_Witness ==
    /\ Returned("BooleanExpression")
    /\ request.operator = "AND"
    /\ Len(request.expressions) = 1
    /\ raised = "ValueError"

\* The leaf has been constructed and evaluated on the session.
EvaluatedLeaf(kind) ==
    /\ evaluation.done
    /\ expression.kind = kind

\* The object detections of the session's snapshot that are of the entity
\* named, with a score at or above the threshold.
QualifyingDetections(name, threshold) ==
    {i \in DOMAIN subject.image_prediction.image_object_predictions :
        LET p == subject.image_prediction.image_object_predictions[i]
        IN  p.target.type = "ImageEntity" /\ p.target.name = name /\ p.score >= threshold}

Count == Cardinality(QualifyingDetections(expression.target.name, expression.score))

\* C15: ScenarioImageEntity.evaluate returns false when the session has no
\* perception snapshot, and false when the snapshot has no detection of the
\* leaf's entity at or above the leaf's score, whatever min and max are.
C15_NoDetectionIsFalse ==
    /\ EvaluatedLeaf("ScenarioImageEntity") =>
          /\ ~subject.image_prediction.present => evaluation.value = FALSE
          /\ Count = 0 => evaluation.value = FALSE
    /\ \A mn, mx \in -1..(MaxCount + 1) :
          (\/ ~subject.image_prediction.present
           \/ QualifyingDetections("person", 50) = {})
             => EntityEvaluate(ScenarioImageEntity(Person, 50, mn, mx), subject) = FALSE

\* A leaf was evaluated false on a snapshot whose only person is below the
\* threshold and which holds a car above it.
C15_Witness ==
    /\ EvaluatedLeaf("ScenarioImageEntity")
    /\ subject.image_prediction.present
    /\ \E i, j \in DOMAIN subject.image_prediction.image_object_predictions :
          /\ subject.image_prediction.image_object_predictions[i].target.name = "person"
          /\ subject.image_prediction.image_object_predictions[j].target.name = "car"
    /\ Count = 0
    /\ ~evaluation.value

\* C16: for a ScenarioImageEntity with 1 <= min <= max, evaluate returns true
\* exactly when min <= count <= max, count being the detections of the leaf's
\* entity with a score greater than or equal to the leaf's.
C16_CountWithinRange ==
    (/\ EvaluatedLeaf("ScenarioImageEntity")
     /\ 1 <= expression.min
     /\ expression.min <= expression.max) =>
        (evaluation.value <=> (expression.min <= Count /\ Count <= expression.max))

\* A leaf with min 1 and max 2 was false on a snapshot with three qualifying
\* detections, one of them exactly at the threshold.
C16_Witness ==
    /\ EvaluatedLeaf("ScenarioImageEntity")
    /\ expression.min = 1
    /\ expression.max = 2
    /\ Count = 3
    /\ \E i \in DOMAIN subject.image_prediction.image_object_predictions :
          subject.image_prediction.image_object_predictions[i].score = expression.score
    /\ ~evaluation.value

\* C17: for a ScenarioImageEntity with max = 0, the defaults min = 1 and
\* max = 0 of omitted attributes included, evaluate returns true exactly when
\* the count is at least min.
C17_MaxZeroIsUnbounded ==
    /\ (EvaluatedLeaf("ScenarioImageEntity") /\ expression.max = 0) =>
          (evaluation.value <=> Count >= expression.min)
    /\ (/\ Returned("ScenarioImageEntity")
         /\ raised = "none"
         /\ ~request.attributes.min.given
         /\ ~request.attributes.max.given) =>
            expression.min = 1 /\ expression.max = 0

\* A leaf constructed with min and max omitted was true on a snapshot with
\* three qualifying detections.
C17_Witness ==
    /\ EvaluatedLeaf("ScenarioImageEntity")
    /\ ~request.attributes.min.given
    /\ ~request.attributes.max.given
    /\ Count = 3
    /\ evaluation.value

\* C18: a ScenarioImageEntity with min = 0 and max = 0 can be constructed,
\* and evaluates true exactly when there is at least one qualifying detection.
C18_PresenceOnlyConstructible ==
    (/\ Returned("ScenarioImageEntity")
     /\ request.attributes.score = FloatValue(50)
     /\ request.attributes.min = IntValue(0)
     /\ request.attributes.max = IntValue(0)) =>
        /\ raised = "none"
        /\ expression = ScenarioImageEntity(request.target, 50, 0, 0)
        /\ evaluation.done => (evaluation.value <=> Count >= 1)

\* The values of min and max a constructor call asks for, the defaults applied.
RequestedMin ==
    IF request.attributes.min.given THEN request.attributes.min.value ELSE 1

RequestedMax ==
    IF request.attributes.max.given THEN request.attributes.max.value ELSE 0

\* The attributes given to the entity constructor have the declared types and
\* the score is among them.
WellTypedRequest ==
    /\ request.attributes.score.given
    /\ request.attributes.score.type = "float"
    /\ request.attributes.min.given => request.attributes.min.type = "int"
    /\ request.attributes.max.given => request.attributes.max.type = "int"

C19_State ==
    /\ (Returned("ScenarioImageEntity") /\ WellTypedRequest) =>
          IF RequestedMin < 1 \/ (RequestedMax # 0 /\ RequestedMin > RequestedMax)
          THEN raised # "none" /\ expression = NoExpression
          ELSE /\ raised = "none"
               /\ expression.kind = "ScenarioImageEntity"
               /\ expression.min = RequestedMin
               /\ expression.max = RequestedMax
    /\ expression.kind = "ScenarioImageEntity" =>
          /\ expression.min >= 1
          /\ expression.max = 0 \/ expression.max >= expression.min

\* C19: constructing a ScenarioImageEntity applies min = 1 and max = 0 when
\* omitted and raises when min < 1 or when max # 0 and min > max; a
\* constructed leaf has min >= 1 and max = 0 or max >= min, and keeps them.
C19_RangeChecked ==
    /\ []C19_State
    /\ [][expression.kind = "ScenarioImageEntity" => expression' = expression]_vars

\* The constructor was called with max = -1 and min omitted, and raised.
C19_Witness ==
    /\ Returned("ScenarioImageEntity")
    /\ WellTypedRequest
    /\ ~request.attributes.min.given
    /\ request.attributes.max = IntValue(-1)
    /\ raised = "ValueError"

\* C20: constructing a ScenarioImageEntity or a ScenarioImageProperty without
\* a 'score' attribute raises, so every constructed leaf has the score it was
\* given and no leaf without one is ever evaluated.
C20_ScoreMandatory ==
    \A class \in {"ScenarioImageEntity", "ScenarioImageProperty"} :
        Returned(class) =>
            /\ ~request.attributes.score.given =>
                  raised # "none" /\ expression = NoExpression /\ ~evaluation.done
            /\ raised = "none" =>
                  /\ request.attributes.score.given
                  /\ expression.kind = class
                  /\ expression.score = request.attributes.score.value

\* ScenarioImageProperty was called with an empty attributes dict, and raised.
C20_Witness ==
    /\ Returned("ScenarioImageProperty")
    /\ Given(request.attributes) = {}
    /\ raised = "ValueError"

-----------------------------------------------------------------------------
(* The library predicates: claim C14, under SpecEvent.                     *)

\* C14: a call of a library predicate, the evaluation of a scenario and of
\* its expression tree included, leaves the session (flags, variables,
\* current state, snapshot), the tree and the event parameters as they were,
\* and a second call on the session gives what the first gave.
C14_EvaluationOnlyReads ==
    /\ [][calls' # calls => (subject' = subject /\ event' = event)]_vars
    /\ [](\A i, j \in DOMAIN calls : calls[i] = calls[j])

\* scenario_matched was called twice with a scenario of a leaf and returned
\* true, on a snapshot the leaf's filter keeps only a part of.
C14_Witness ==
    /\ event.name = "scenario_matched"
    /\ Len(calls) = 2
    /\ calls[2].value = "True"
    /\ \E i \in DOMAIN subject.image_prediction.image_object_predictions :
          subject.image_prediction.image_object_predictions[i].target.name = "car"

-----------------------------------------------------------------------------
(* Attributes, the property leaf, perception entities: claims C21 to C23.  *)

\* The type declared for an attribute name by the kind of owner, "none" when
\* the owner does not allow the name.
Declared(class, name) ==
    CASE class = "ScenarioImageEntity" /\ name = "score" -> "float"
      [] class = "ScenarioImageEntity" /\ name \in {"min", "max"} -> "int"
      [] class = "ScenarioImageProperty" /\ name = "score" -> "float"
      [] class \in {"ImageEntity", "ImageProperty"} /\ name = "description" -> "str"
      [] OTHER -> "none"

\* C21: constructing an attribute fails when its name is not allowed for the
\* owner or its value is not exactly of the declared type; an owner given a
\* dict with one such attribute is not constructed, and nothing is evaluated.
C21_InvalidAttributeRefused ==
    \A class \in {"ScenarioImageEntity", "ScenarioImageProperty", "ImageEntity",
                  "ImageProperty"} :
        (/\ Returned(class)
         /\ \E n \in DOMAIN request.attributes :
               /\ request.attributes[n].given
               /\ Declared(class, n) # request.attributes[n].type) =>
            raised # "none" /\ expression = NoExpression /\ ~evaluation.done

\* ScenarioImageEntity was called with a float score and the boolean True as
\* min, nothing else, and raised.
C21_Witness ==
    /\ Returned("ScenarioImageEntity")
    /\ request.attributes.score = FloatValue(50)
    /\ request.attributes.min = BoolValue(1)
    /\ Given(request.attributes) = {"score", "min"}
    /\ raised = "ValueError"

\* The property detections of the session's snapshot that are of the leaf's
\* property, with a score at or above the leaf's.
QualifyingProperties ==
    {i \in DOMAIN subject.image_prediction.image_property_predictions :
        LET p == subject.image_prediction.image_property_predictions[i]
        IN  /\ p.target.type = "ImageProperty"
            /\ p.target.name = expression.target.name
            /\ p.score >= expression.score}

\* C22: ScenarioImageProperty.evaluate returns false when the session has no
\* snapshot, and otherwise true exactly when at least one property detection
\* is of the leaf's property with a score at or above the leaf's.
C22_PropertyDetected ==
    EvaluatedLeaf("ScenarioImageProperty") =>
        /\ ~subject.image_prediction.present => evaluation.value = FALSE
        /\ subject.image_prediction.present =>
              (evaluation.value <=> QualifyingProperties # {})

\* A property leaf was false on a snapshot holding another property above the
\* threshold and its own below it.
C22_Witness ==
    /\ EvaluatedLeaf("ScenarioImageProperty")
    /\ Len(subject.image_prediction.image_property_predictions) = 2
    /\ subject.image_prediction.image_property_predictions[1].target.name = "bright"
    /\ ~evaluation.value

\* C23 as stated: equality and hash of perception entities depend on the name
\* only; entities with the same name are equal and have the same hash, those
\* with different names are not equal, and equality is an equivalence.
C23_EqualByNameOnly ==
    comparison.done =>
        \A i, j \in DOMAIN entities :
            /\ comparison.eq[i][j] <=> entities[i].name = entities[j].name
            /\ entities[i].name = entities[j].name => comparison.hash[i] = comparison.hash[j]

\* C23 as amended: equality of perception entities depends on the kind and the
\* name only, their hash on the name only; equality is reflexive, symmetric
\* and transitive, and equal entities have the same hash.
C23_EqualByKindAndName ==
    comparison.done =>
        /\ \A i, j \in DOMAIN entities :
              /\ comparison.eq[i][j] <=> (/\ entities[i].type = entities[j].type
                                          /\ entities[i].name = entities[j].name)
              /\ entities[i].name = entities[j].name =>
                    comparison.hash[i] = comparison.hash[j]
              /\ comparison.eq[i][j] => comparison.hash[i] = comparison.hash[j]
              /\ comparison.eq[i][i]
              /\ comparison.eq[i][j] <=> comparison.eq[j][i]
        /\ \A i, j, k \in DOMAIN entities :
              (comparison.eq[i][j] /\ comparison.eq[j][k]) => comparison.eq[i][k]

\* Two image entities of the same name and different descriptions were found
\* equal, and an image property of that name was found different from both.
C23_Witness ==
    /\ comparison.done
    /\ entities[1] = ImageEntity("person", "none")
    /\ entities[2] = ImageEntity("person", "a person")
    /\ entities[3] = ImageProperty("person", "none")
    /\ comparison.eq[1][2]
    /\ ~comparison.eq[1][3]
    /\ comparison.hash[1] = comparison.hash[3]

-----------------------------------------------------------------------------
(* Scenarios and the library predicates: claims C24 to C28, under SpecEvent. *)

\* The predicate named has been called on the session.
Called(name) ==
    /\ event.name = name
    /\ calls # <<>>

\* C24: Scenario.evaluate returns what the root expression's evaluate returns
\* on the session, and scenario_matched returns Scenario.evaluate of the
\* scenario in its parameters.
C24_ScenarioDelegates ==
    Called("scenario_matched") =>
        /\ event.scenario.expression # NoExpression
        /\ ScenarioEvaluate(event.scenario, subject)
              = evaluate(event.scenario.expression, subject)
        /\ calls[1] = Return(Bool(evaluate(event.scenario.expression, subject)))

\* scenario_matched returned false for the scenario of a person in an image
\* that is not dark, on a snapshot without a person above the threshold.
C24_Witness ==
    /\ Called("scenario_matched")
    /\ event.scenario.name = "person_not_dark"
    /\ subject.image_prediction.present
    /\ calls[1] = Return("False")

\* The flag a predicate reads, "none" for a predicate that reads none.
FlagOf(name) ==
    CASE name = "intent_matched" -> "predicted_intent"
      [] name = "file_received" -> "file"
      [] name = "image_object_detected" -> "image_prediction"
      [] OTHER -> "none"

\* C25: a predicate that reads a flag returns the boolean false, and does not
\* raise, when the flag is absent from the session's flags or is false.
C25_UnsetFlagIsFalse ==
    \A name \in {"intent_matched", "file_received", "image_object_detected"} :
        (Called(name) /\ subject.flags[FlagOf(name)] \in {"absent", "False"}) =>
            \A i \in DOMAIN calls : calls[i] = Return("False")

\* C26: intent_matched returns true exactly when the flag 'predicted_intent'
\* is true and the target intent has the name of the session's predicted
\* intent; an intent left on the session under a false flag does not count.
C26_IntentMatched ==
    Called("intent_matched") =>
        /\ calls[1] = Return("True")
              <=> (/\ subject.flags["predicted_intent"] = "True"
                   /\ event.intent = subject.predicted_intent)
        /\ subject.flags["predicted_intent"] = "False" => calls[1] # Return("True")

\* intent_matched did not return true on a session whose flag is false and
\* whose stale predicted intent is the target.
C26_Witness ==
    /\ Called("intent_matched")
    /\ subject.flags["predicted_intent"] = "False"
    /\ subject.predicted_intent = event.intent
    /\ calls[1] # Return("True")

\* C27: file_received returns true exactly when the flag 'file' is true and
\* either no 'allowed_types' is given or the file's type is one of the allowed
\* types; it returns false when the flag is false and when the type is not
\* allowed.
C27_FileReceived ==
    Called("file_received") =>
        LET allowed == \/ ~event.allowed_types.given
                       \/ subject.file \in event.allowed_types.types
        IN  /\ calls[1] = Return("True")
                  <=> (subject.flags["file"] = "True" /\ allowed)
            /\ subject.flags["file"] = "False" => calls[1] = Return("False")
            /\ (subject.flags["file"] = "True" /\ ~allowed) => calls[1] = Return("False")

Executing(u) == call[u].op # "none" /\ ~call[u].ran

FirstTrue ==
    LET first(i) == /\ \A j \in 1..i : ~Raises(expression.expressions[j], subject)
                    /\ evaluate(expression.expressions[i], subject)
                    /\ \A j \in 1..(i - 1) : ~evaluate(expression.expressions[j], subject)
    IN  IF \E i \in DOMAIN expression.expressions : first(i)
        THEN CHOOSE i \in DOMAIN expression.expressions : first(i)
        ELSE 0

\* The children after the i-th whose evaluate raises.
RaisingAfter(i) ==
    {j \in DOMAIN expression.expressions :
        j > i /\ Raises(expression.expressions[j], subject)}

\* C30 as stated: an OR expression whose i-th child is the first to evaluate
\* true evaluates no child after the i-th, and no error of a later child occurs.
C30_OrShortCircuits ==
    (Evaluated("OR") /\ FirstTrue > 0) =>
        /\ evaluation.children = FirstTrue
        /\ ~evaluation.raised

\* C30 amended: an OR expression does not short-circuit. When its i-th child is
\* the first to evaluate true, the children after the i-th are evaluated too, in
\* order: all of them, with result true, if none raises, and up to the first
\* that raises otherwise, whose error is the outcome of the evaluation.
C30_OrEvaluatesEveryChild ==
    (Evaluated("OR") /\ FirstTrue > 0) =>
        IF RaisingAfter(FirstTrue) = {}
        THEN /\ evaluation.children = Len(expression.expressions)
             /\ ~evaluation.raised
             /\ evaluation.value
        ELSE /\ evaluation.children \in RaisingAfter(FirstTrue)
             /\ \A j \in RaisingAfter(FirstTrue) : evaluation.children <= j
             /\ evaluation.raised

\* An OR expression whose first child evaluated true was evaluated and raised
\* the error of its third child, after evaluating a second that returned false.
C30_Witness ==
    /\ Evaluated("OR")
    /\ FirstTrue = 1
    /\ Len(expression.expressions) = 3
    /\ ~evaluate(expression.expressions[2], subject)
    /\ ~Raises(expression.expressions[2], subject)
    /\ evaluation.children = 3
    /\ evaluation.raised

\* The session sn with other flags.
WithFlags(sn, flags) == [sn EXCEPT !.flags = flags]

\* C39: scenario_matched and every scenario leaf give, on a session with the
\* same snapshot and any other setting of the flags, the result they gave on
\* this session.
C39_FlagsDoNotCount ==
    Called("scenario_matched") =>
        \A flags \in [FlagNames -> {"absent", "False", "True"}] :
            /\ scenario_matched(WithFlags(subject, flags), event) = calls[1]
            /\ \A leaf \in Leaves :
                  evaluate(leaf, WithFlags(subject, flags)) = evaluate(leaf, subject)

\* scenario_matched returned true on a session whose 'image_prediction' flag
\* is false and whose snapshot, left by an earlier stimulus, shows one person.
C39_Witness ==
    /\ Called("scenario_matched")
    /\ subject.flags["image_prediction"] = "False"
    /\ subject.image_prediction.present
    /\ calls[1] = Return("True")

\* The handler of connection c is in its loop.
InLoop(c) == pc[c] \in {"recv", "call"}

\* C31: in the agent's WebSocketPlatform the ids in _connections are those of
\* the handlers in their loop, each with its session; a handler that has ended,
\* however it ended, has its session deleted and its id out of _connections.
C31_ConnectionsAreActive ==
    platform = "websocket" =>
        \A c \in Sessions :
            /\ c \in connections <=> InLoop(c)
            /\ InLoop(c) => session[c] # NoSession
            /\ pc[c] \notin {"new", "accepted", "recv", "call"} =>
                  /\ pc[c] = "done"
                  /\ session[c] = NoSession
                  /\ c \notin connections

\* A handler of the agent's platform ended by an error while processing: the
\* platform runs and the socket was not closed, and another handler goes on.
C31_Witness ==
    \E c, d \in Sessions :
        /\ platform = "websocket"
        /\ running
        /\ pc[c] = "done"
        /\ ~closed[c]
        /\ handled[c] # <<>>
        /\ d \in connections

\* C32: in the bot's WebSocketPlatform a connection whose handler has ended
\* and whose session has been deleted is no longer in _connections.
C32_FinishedNotRegistered ==
    platform = "bot_websocket" =>
        \A c \in Sessions :
            (pc[c] = "done" /\ session[c] = NoSession) => c \notin connections

\* C33: in the agent's WebSocketPlatform, with running false, no step
\* dispatches a payload, and the handler that reads one ends, its session
\* deleted and its connection removed.
C33_NoDispatchAfterStop ==
    [][(platform = "websocket" /\ ~running) =>
          \A c \in Sessions :
              /\ handled'[c] = handled[c]
              /\ Len(inbox'[c]) < Len(inbox[c]) =>
                    /\ pc'[c] = "done"
                    /\ session'[c] = NoSession
                    /\ c \notin connections']_vars

\* A handler that stop() had listed, that had dispatched nothing and whose
\* socket nobody closed, has ended: it read a payload after stop().
C33_Witness ==
    \E c \in Sessions :
        /\ platform = "websocket"
        /\ ~running
        /\ c \in stopKeys
        /\ ~closed[c]
        /\ handled[c] = <<>>
        /\ sent[c] > 0
        /\ pc[c] = "done"
        /\ session[c] = NoSession
        /\ c \notin connections

\* C34: an error raised while decoding or processing a payload ends the
\* handler of its connection without going out of it and with the session
\* deleted, leaves the other connections' handlers and sessions as they are,
\* and a handler that has ended dispatches nothing more.
C34_ErrorEndsHandler ==
    /\ [][\A c \in Sessions : (WsDecodeRaise(c) \/ WsExcept(c)) =>
              /\ pc'[c] = "done"
              /\ session'[c] = NoSession
              /\ \A d \in Sessions \ {c} :
                    /\ pc'[d] = pc[d]
                    /\ session'[d] = session[d]
                    /\ call'[d] = call[d]
                    /\ inbox'[d] = inbox[d]
                    /\ closed'[d] = closed[d]
                    /\ (d \in connections') = (d \in connections)]_vars
    /\ [][\A c \in Sessions : pc[c] = "done" =>
              /\ pc'[c] = "done"
              /\ handled'[c] = handled[c]
              /\ call'[c] = NoCall]_vars

\* On the bot's platform a handler ended by an error, a later payload of its
\* connection left unread, while another connection's handler is in an engine
\* call on its own session.
C34_Witness ==
    \E c, d \in Sessions :
        /\ platform = "bot_websocket"
        /\ running
        /\ pc[c] = "done"
        /\ ~closed[c]
        /\ handled[c] # <<>>
        /\ inbox[c] # <<>>
        /\ session[c] = NoSession
        /\ pc[d] = "call"
        /\ session[d] # NoSession

\* C37: the agent's stop() completes without error, whatever handlers end
\* while it runs.
C37_StopCompletes ==
    platform = "websocket" => stopPc # "raised"

\* C35: a reply operation called with a session of another platform raises
\* PlatformMismatchError and does nothing else: no message is saved, no
\* payload sent, no session touched.
C35_State ==
    (replied.operation # "none" /\ ~replied.own) =>
        /\ replied.raised = "PlatformMismatchError"
        /\ replied.pc = "done"

C35_MismatchRaises ==
    /\ []C35_State
    /\ [][\A operation \in ReplyOperations, s \in Sessions :
              Reply(operation, s, FALSE) =>
                  /\ saved' = saved
                  /\ wire' = wire
                  /\ session' = session]_vars

\* reply_rag was refused for a session of another platform that has a
\* registered connection and messages saved and sent before.
C35_Witness ==
    /\ replied.operation = "reply_rag"
    /\ ~replied.own
    /\ replied.raised = "PlatformMismatchError"
    /\ replied.session \in connections
    /\ Len(saved[replied.session]) = 1
    /\ Len(wire[replied.session]) = 1

\* C36: every payload sent carries a message saved before, the payloads of a
\* session go out in the order its messages were saved, a payload is sent only
\* with the session's id in _connections, and _send for a session whose id is
\* not there ends without error and sends nothing.
C36_State ==
    \A s \in Sessions :
        /\ \A i \in DOMAIN saved[s] : saved[s][i].content = i
        /\ \A i \in DOMAIN wire[s] : wire[s][i].message \in DOMAIN saved[s]
        /\ \A i, j \in DOMAIN wire[s] : i < j => wire[s][i].message < wire[s][j].message

Shown == [i \in DOMAIN ui.history |-> ui.history[i].message]

\* C38: every reply received since the last reset is, once and in the order
\* of arrival, in the history or, behind those, on the queue; when the script
\* has stopped with the queue empty the screen shows them in that order; and
\* a reset has sent one RESET payload.
C38_RepliesQueuedOnce ==
    /\ Shown \o ui.queue = ui.arrived
    /\ (ui.pc = "stopped" /\ ~ui.rerun) => ui.screen = ui.arrived
    /\ Len(ui.out) = ui.resets - (IF ui.reset_button THEN 1 ELSE 0)

====
